---- MODULE Spec2Model ----
(***************************************************************************)
(* Model of the FII portfolio tracker: MonthlyRecord / FII (models.py),    *)
(* the JSON file store (storage.py) and the FIIsTracker repository         *)
(* (tracker.py).                                                           *)
(*                                                                         *)
(* Representation.                                                         *)
(*  - A Python str that the code orders or upper-cases (ticker, month) is  *)
(*    the sequence of its code points, so "2024-01" is                     *)
(*    <<50,48,50,52,45,48,49>> and "xp" is <<120,112>>.  Strings that are  *)
(*    only stored and compared for equality (name, sector, notes) are TLA+ *)
(*    strings.                                                             *)
(*  - Numbers are exact fixed point: cotas_added counts whole cotas,       *)
(*    price_per_cota and dividend_total are cents (1/100),                 *)
(*    dividend_per_cota is mills (1/1000).                                 *)
(*  - In memory Optional[float] is <<>> (None) or <<v>>; in the JSON file  *)
(*    it is [isnull |-> TRUE, num |-> 0] (null) or [isnull |-> FALSE,      *)
(*    num |-> v].                                                          *)
(*  - A JSON object is a TLA+ record; a key the file does not hold is a    *)
(*    field the record does not have.                                      *)
(***************************************************************************)
EXTENDS Integers, Sequences, FiniteSets, TLC

VARIABLES
    fiis,    \* FIIsTracker._fiis: the in-memory list of FII objects
    store,   \* the content of the file at FIIsTracker.data_path
    alive,   \* TRUE when FIIsTracker.__init__ returned (the tracker exists)
    last,    \* the last call made on the tracker: its kind and how it ended
    peer,    \* FIIsTracker._fiis of a second tracker opened on the same data_path
    writing, \* per tracker, the payload of a save_data that has opened the file
             \* for writing and not closed it yet
    ids,     \* id() of each FII object of fiis, position by position
    held,    \* a FII object a caller keeps a reference to
    now,     \* datetime.now().strftime("%Y-%m")
    points,  \* the list of ProjectionPoint the last projection returned, or
             \* has built so far
    frame    \* None, or Some(locals) of a project_income call inside its loop

vars == <<fiis, store, alive, last, peer, writing, ids, held, now, points, frame>>

(***************************************************************************)
(* Bounds of the model.                                                    *)
(***************************************************************************)
\* Largest number of records the tracker holds when register_month is called
\* to add one more.
MaxEntries == 2
\* Depth at which the interpreter stops a runaway recursion.
RecursionLimit == 6

(***************************************************************************)
(* Python str and list primitives.                                         *)
(***************************************************************************)
\* str.__lt__: lexicographic order by code point.
RECURSIVE StrLess(_, _)
StrLess(a, b) ==
    IF b = <<>> THEN FALSE
    ELSE IF a = <<>> THEN TRUE
    ELSE IF Head(a) /= Head(b) THEN Head(a) < Head(b)
    ELSE StrLess(Tail(a), Tail(b))

\* str.upper() on ASCII text.
Upper(s) ==
    [i \in 1..Len(s) |-> IF s[i] >= 97 /\ s[i] <= 122 THEN s[i] - 32 ELSE s[i]]

\* dict.get(key, default).
Get(d, k, default) == IF k \in DOMAIN d THEN d[k] ELSE default

\* One step of the stable sort by entry.month: x goes after every element
\* whose month is not greater than its own.
RECURSIVE InsertByMonth(_, _)
InsertByMonth(sorted, x) ==
    IF sorted = <<>> THEN <<x>>
    ELSE IF StrLess(x.month, Head(sorted).month) THEN <<x>> \o sorted
    ELSE <<Head(sorted)>> \o InsertByMonth(Tail(sorted), x)

\* list.sort(key=lambda entry: entry.month) / sorted(..., key=month): stable.
RECURSIVE SortByMonth(_)
SortByMonth(entries) ==
    IF entries = <<>> THEN <<>>
    ELSE InsertByMonth(SortByMonth(SubSeq(entries, 1, Len(entries) - 1)),
                       entries[Len(entries)])

RECURSIVE InsertByTicker(_, _)
InsertByTicker(sorted, x) ==
    IF sorted = <<>> THEN <<x>>
    ELSE IF StrLess(x.ticker, Head(sorted).ticker) THEN <<x>> \o sorted
    ELSE <<Head(sorted)>> \o InsertByTicker(Tail(sorted), x)

\* list.sort(key=lambda fii: fii.ticker): stable.
RECURSIVE SortByTicker(_)
SortByTicker(list) ==
    IF list = <<>> THEN <<>>
    ELSE InsertByTicker(SortByTicker(SubSeq(list, 1, Len(list) - 1)),
                        list[Len(list)])

\* round(x, 2) of an amount given in mills, as cents (round half to even).
Round2(mills) ==
    LET q == mills \div 10
        r == mills % 10
    IN  IF r > 5 \/ (r = 5 /\ q % 2 = 1) THEN q + 1 ELSE q

(***************************************************************************)
(* models.py                                                               *)
(***************************************************************************)
None == <<>>
Some(v) == <<v>>
JsonNull == [isnull |-> TRUE, num |-> 0]
JsonNum(v) == [isnull |-> FALSE, num |-> v]

\* Mutant of RecordFromDict: a null dividend_total is read as 0.0.
RecordFromDictNullAsZero(data) ==
    [month             |-> Get(data, "month", <<>>),
     cotas_added       |-> Get(data, "cotas_added", 0),
     price_per_cota    |-> Get(data, "price_per_cota", 0),
     dividend_per_cota |-> Get(data, "dividend_per_cota", 0),
     dividend_total    |-> Some(Get(data, "dividend_total", JsonNull).num),
     notes             |-> Get(data, "notes", "")]

\* MonthlyRecord.from_dict
RecordFromDict(data) ==
    [month             |-> Get(data, "month", <<>>),
     cotas_added       |-> Get(data, "cotas_added", 0),
     price_per_cota    |-> Get(data, "price_per_cota", 0),
     dividend_per_cota |-> Get(data, "dividend_per_cota", 0),
     dividend_total    |-> IF ~Get(data, "dividend_total", JsonNull).isnull
                           THEN Some(data["dividend_total"].num)
                           ELSE None,
     notes             |-> Get(data, "notes", "")]

\* MonthlyRecord.to_dict
RecordToDict(rec) ==
    [month             |-> rec.month,
     cotas_added       |-> rec.cotas_added,
     price_per_cota    |-> rec.price_per_cota,
     dividend_per_cota |-> rec.dividend_per_cota,
     dividend_total    |-> IF rec.dividend_total = None
                           THEN JsonNull
                           ELSE JsonNum(rec.dividend_total[1]),
     notes             |-> rec.notes]

\* FII.from_dict
FIIFromDict(data) ==
    LET items   == Get(data, "entries", <<>>)
        entries == [i \in 1..Len(items) |-> RecordFromDict(items[i])]
    IN  [ticker  |-> Upper(Get(data, "ticker", <<>>)),
         name    |-> Get(data, "name", ""),
         sector  |-> Get(data, "sector", ""),
         entries |-> SortByMonth(entries)]

\* FII.to_dict
FIIToDict(fii) ==
    LET sorted == SortByMonth(fii.entries)
    IN  [ticker  |-> Upper(fii.ticker),
         name    |-> fii.name,
         sector  |-> fii.sector,
         entries |-> [i \in 1..Len(sorted) |-> RecordToDict(sorted[i])]]

RECURSIVE SumCotas(_)
SumCotas(entries) ==
    IF entries = <<>> THEN 0
    ELSE Head(entries).cotas_added + SumCotas(Tail(entries))

\* FII.total_cotas
TotalCotas(fii) == SumCotas(fii.entries)

(***************************************************************************)
(* storage.py.  The file is [kind, fiis]:                                  *)
(*   "missing"   no file at the path                                       *)
(*   "garbage"   text that is not JSON                                     *)
(*   "array"     JSON whose top level is a list, not an object             *)
(*   "nokey"     a JSON object without the key "fiis"                      *)
(*   "nullfiis"  a JSON object with "fiis": null                           *)
(*   "portfolio" a JSON object with "fiis": [fund objects]                 *)
(* A call returns [status, store, ...]: how it ended ("ok" or the          *)
(* exception it raised), the file afterwards, and what it returned.        *)
(***************************************************************************)
File(kind, list) == [kind |-> kind, fiis |-> list]
FileOf(payload) == File("portfolio", payload.fiis)
EmptyPayload == [fiis |-> <<>>]
\* What json.load returned: islist tells whether content["fiis"] is a list.
EmptyContent == [islist |-> TRUE, fiis |-> <<>>]

RECURSIVE EnsureDataFile(_, _)
RECURSIVE SaveData(_, _, _)

\* ensure_data_file: writes the empty portfolio when the path does not exist.
EnsureDataFile(st, depth) ==
    IF st.kind /= "missing"
    THEN [status |-> "ok", store |-> st]
    ELSE SaveData(EmptyPayload, st, depth + 1)

\* save_data: ensure_data_file(path), then open(path, "w") and json.dump.
SaveData(data, st, depth) ==
    IF depth >= RecursionLimit
    THEN [status |-> "RecursionError", store |-> st]
    ELSE LET ensured == EnsureDataFile(st, depth + 1)
         IN  IF ensured.status /= "ok"
             THEN ensured
             ELSE [status |-> "ok", store |-> FileOf(data)]

\* load_data
LoadData(st) ==
    LET ensured == EnsureDataFile(st, 1)
        file    == ensured.store
    IN  IF ensured.status /= "ok"
        THEN [status |-> ensured.status, store |-> file, content |-> EmptyContent]
        ELSE CASE file.kind = "garbage" ->      \* except json.JSONDecodeError
                    [status |-> "ok", store |-> file, content |-> EmptyContent]
               [] file.kind = "array" ->        \* list has no setdefault
                    [status |-> "AttributeError", store |-> file,
                     content |-> EmptyContent]
               [] file.kind = "nokey" ->        \* content.setdefault("fiis", [])
                    [status |-> "ok", store |-> file, content |-> EmptyContent]
               [] file.kind = "nullfiis" ->
                    [status |-> "ok", store |-> file,
                     content |-> [islist |-> FALSE, fiis |-> <<>>]]
               [] OTHER ->
                    [status |-> "ok", store |-> file,
                     content |-> [islist |-> TRUE, fiis |-> file.fiis]]

(***************************************************************************)
(* tracker.py: FIIsTracker                                                 *)
(***************************************************************************)
\* FIIsTracker._load_fiis
LoadFiis(st) ==
    LET raw == LoadData(st)
    IN  IF raw.status /= "ok"
        THEN [status |-> raw.status, store |-> raw.store, fiis |-> <<>>]
        ELSE IF ~raw.content.islist        \* iterating None
        THEN [status |-> "TypeError", store |-> raw.store, fiis |-> <<>>]
        ELSE LET items == raw.content.fiis
             IN  [status |-> "ok", store |-> raw.store,
                  fiis   |-> SortByTicker(
                                [i \in 1..Len(items) |-> FIIFromDict(items[i])])]

\* The payload FIIsTracker._save builds.
Payload(list) == [fiis |-> [i \in 1..Len(list) |-> FIIToDict(list[i])]]

\* Mutant of Save: the handler returns without writing the file.
SaveSkipped(list, st) == [status |-> "ok", store |-> st]

\* FIIsTracker._save
Save(list, st) == SaveData(Payload(list), st, 1)

\* FIIsTracker.find_fii: index of the first fund with that ticker, 0 for None.
FindFii(list, ticker) ==
    LET hits == {i \in 1..Len(list) : list[i].ticker = Upper(ticker)}
    IN  IF hits = {} THEN 0 ELSE CHOOSE i \in hits : \A j \in hits : i <= j

\* Mutant of UpdateExisting: the supplied values are assigned as they come.
UpdateExistingOverwrites(fii, name, sector) ==
    [fii EXCEPT !.name = name, !.sector = sector]

\* The tail of add_or_update_fii's "existing" branch.
UpdateExisting(fii, name, sector) ==
    [fii EXCEPT !.name   = IF name /= "" THEN name ELSE fii.name,
                !.sector = IF sector /= "" THEN sector ELSE fii.sector]

\* Mutant of NewFii: the ticker is stored as typed.
NewFiiAsTyped(ticker, name, sector) ==
    [ticker |-> ticker, name |-> name, sector |-> sector, entries |-> <<>>]

\* FII(ticker=ticker.upper(), name=name, sector=sector)
NewFii(ticker, name, sector) ==
    [ticker |-> Upper(ticker), name |-> name, sector |-> sector, entries |-> <<>>]

\* Mutant of WithDividendTotal: the dividend is paid on the unit count before
\* the purchase.
WithDividendOnOldCotas(fii, record) ==
    IF record.dividend_total = None /\ record.dividend_per_cota /= 0
    THEN [record EXCEPT !.dividend_total =
              Some(Round2(record.dividend_per_cota * TotalCotas(fii)))]
    ELSE record

\* The record register_month stores: dividend_total is derived from the unit
\* count after this purchase when it is None and dividend_per_cota is not 0.
WithDividendTotal(fii, record) ==
    LET total_cotas_before == TotalCotas(fii)
        total_cotas_after  == total_cotas_before + record.cotas_added
    IN  IF record.dividend_total = None /\ record.dividend_per_cota /= 0
        THEN [record EXCEPT !.dividend_total =
                  Some(Round2(record.dividend_per_cota * total_cotas_after))]
        ELSE record

\* Mutant of AppendEntry: the record is appended and the list is not sorted.
AppendEntryUnsorted(entries, record) == Append(entries, record)

\* fii.entries.append(record); fii.entries.sort(key=month)
AppendEntry(entries, record) == SortByMonth(Append(entries, record))

\* Mutant of MatchIndex: the loop breaks at its first entry whatever its month.
MatchIndexFirstEntry(entries, original_month) ==
    IF entries = <<>> THEN 0 ELSE 1

\* The for/else of update_month_record: index of the first entry whose month
\* is original_month, 0 when the loop ends without a break.
MatchIndex(entries, original_month) ==
    LET hits == {i \in 1..Len(entries) : entries[i].month = original_month}
    IN  IF hits = {} THEN 0 ELSE CHOOSE i \in hits : \A j \in hits : i <= j

\* fii.entries[idx] = updated; fii.entries.sort(key=month)
ReplaceEntry(entries, idx, updated) ==
    SortByMonth([entries EXCEPT ![idx] = updated])

(***************************************************************************)
(* Inputs.                                                                 *)
(***************************************************************************)
TXpLower == <<120, 112>>            \* "xp"
TXpUpper == <<88, 80>>              \* "XP"
THgMixed == <<72, 103>>             \* "Hg"
THgUpper == <<72, 71>>              \* "HG"
\* Tickers the mutating calls are made with, and the spellings looked up.
TickerInputs == {TXpLower, THgMixed}
LookupInputs == {TXpLower, TXpUpper, THgMixed, THgUpper}

M2312 == <<50, 48, 50, 51, 45, 49, 50>>   \* "2023-12"
M2401 == <<50, 48, 50, 52, 45, 48, 49>>   \* "2024-01"
MonthInputs == {M2312, M2401}

NameInputs == {"", "Alfa"}
SectorInputs == {"", "Logistica"}

MonthlyRecord(month, cotas, price, dividend_pc, dividend_total, notes) ==
    [month |-> month, cotas_added |-> cotas, price_per_cota |-> price,
     dividend_per_cota |-> dividend_pc, dividend_total |-> dividend_total,
     notes |-> notes]

\* The records callers pass: a purchase paying 0.004 per cota with no total
\* given, a purchase in the same month with no dividend, and an earlier
\* dividend-only entry whose total is given.
RecordInputs ==
    {MonthlyRecord(M2401, 2, 1000, 4, None, ""),
     MonthlyRecord(M2401, 3, 1250, 0, None, "compra"),
     MonthlyRecord(M2312, 0, 0, 6, Some(7), "")}

\* A portfolio file written by hand: lower-case ticker, no "sector" key,
\* entries out of order, one of them with only its month.
ForeignFile ==
    File("portfolio",
         <<[ticker  |-> TXpLower,
            name    |-> "Antigo",
            entries |-> <<[month |-> M2401, cotas_added |-> 3,
                           price_per_cota |-> 900, dividend_per_cota |-> 8,
                           dividend_total |-> JsonNum(2), notes |-> "x"],
                          [month |-> M2312]>>]>>)

\* What may be found at data_path when the tracker is not the one writing it.
FoundFiles ==
    {File("missing", <<>>), File("garbage", <<>>), File("array", <<>>),
     File("nokey", <<>>), File("nullfiis", <<>>), File("portfolio", <<>>),
     ForeignFile}

(***************************************************************************)
(* The tracker's operations.                                               *)
(***************************************************************************)
\* A call is a "load" (__init__, refresh), a "mutate" (add_or_update_fii,
\* register_month, update_month_record) or a "query" (project_income); it
\* ends "ok" or with the exception it raised.
Call(op, status) == [op |-> op, status |-> status]

\* Number of records held by the tracker.
RECURSIVE TotalEntries(_)
TotalEntries(list) ==
    IF list = <<>> THEN 0 ELSE Len(Head(list).entries) + TotalEntries(Tail(list))

\* One tracker on the path, no reference kept outside it, no projection made.
NoPeer == peer = <<>> /\ writing = <<>>
NoReference == ids = <<>> /\ held = <<>>
NoProjection == now = M2401 /\ points = <<>> /\ frame = <<>>
Alone == UNCHANGED <<peer, writing, ids, held, now, points, frame>>

Init ==
    /\ \E file \in FoundFiles :
           LET loaded == LoadFiis(file)
           IN  /\ store = loaded.store
               /\ fiis = loaded.fiis
               /\ alive = (loaded.status = "ok")
               /\ last = Call("load", loaded.status)
    /\ NoPeer /\ NoReference /\ NoProjection

\* FIIsTracker(data_path) is constructed again: on the file as the tracker
\* left it or, after a construction that raised, on whatever was put in its
\* place.
Restart(file) ==
    LET loaded == LoadFiis(file)
    IN  /\ alive => file = store
        /\ store' = loaded.store
        /\ fiis' = loaded.fiis
        /\ alive' = (loaded.status = "ok")
        /\ last' = Call("load", loaded.status)

\* FIIsTracker.refresh: an exception leaves self._fiis as it was.
Refresh ==
    /\ alive
    /\ LET loaded == LoadFiis(store)
       IN  /\ store' = loaded.store
           /\ fiis' = IF loaded.status = "ok" THEN loaded.fiis ELSE fiis
           /\ last' = Call("load", loaded.status)
    /\ UNCHANGED alive

\* FIIsTracker.add_or_update_fii
AddOrUpdateFii(ticker, name, sector) ==
    /\ alive
    /\ LET idx      == FindFii(fiis, ticker)
           mutated  == IF idx /= 0
                       THEN [fiis EXCEPT ![idx] = UpdateExisting(fiis[idx], name, sector)]
                       ELSE SortByTicker(Append(fiis, NewFii(ticker, name, sector)))
           saved    == Save(mutated, store)
       IN  /\ fiis' = mutated
           /\ store' = saved.store
           /\ last' = Call("mutate", saved.status)
    /\ UNCHANGED alive

\* FIIsTracker.register_month
RegisterMonth(ticker, record) ==
    /\ alive
    /\ LET idx == FindFii(fiis, ticker)
       IN  IF idx = 0
           THEN /\ last' = Call("mutate", "FundNotFound")
                /\ UNCHANGED <<fiis, store>>
           ELSE /\ TotalEntries(fiis) < MaxEntries
                /\ LET stored  == WithDividendTotal(fiis[idx], record)
                       mutated == [fiis EXCEPT ![idx].entries =
                                       AppendEntry(fiis[idx].entries, stored)]
                       saved   == Save(mutated, store)
                   IN  /\ fiis' = mutated
                       /\ store' = saved.store
                       /\ last' = Call("mutate", saved.status)
    /\ UNCHANGED alive

\* FIIsTracker.update_month_record
UpdateMonthRecord(ticker, original_month, updated) ==
    /\ alive
    /\ LET idx == FindFii(fiis, ticker)
       IN  IF idx = 0
           THEN /\ last' = Call("mutate", "FundNotFound")
                /\ UNCHANGED <<fiis, store>>
           ELSE LET at == MatchIndex(fiis[idx].entries, original_month)
                IN  IF at = 0
                    THEN /\ last' = Call("mutate", "MonthNotFound")
                         /\ UNCHANGED <<fiis, store>>
                    ELSE LET mutated == [fiis EXCEPT ![idx].entries =
                                            ReplaceEntry(fiis[idx].entries, at, updated)]
                             saved   == Save(mutated, store)
                         IN  /\ fiis' = mutated
                             /\ store' = saved.store
                             /\ last' = Call("mutate", saved.status)
    /\ UNCHANGED alive

\* Mutant of ProjectIncome: an unknown ticker yields no points instead of
\* raising.
ProjectIncomeNeverRaises(ticker) ==
    /\ alive
    /\ last' = Call("query", "ok")
    /\ UNCHANGED <<fiis, store, alive>>

\* FIIsTracker.project_income: the lookup and the raise; the points it returns
\* are not part of the tracker's state.
ProjectIncome(ticker) ==
    /\ alive
    /\ last' = Call("query",
                    IF FindFii(fiis, ticker) = 0 THEN "FundNotFound" ELSE "ok")
    /\ UNCHANGED <<fiis, store, alive>>

Next ==
    \/ \E file \in FoundFiles \cup {store} : Restart(file) /\ Alone
    \/ Refresh /\ Alone
    \/ \E t \in TickerInputs, n \in NameInputs, s \in SectorInputs :
           AddOrUpdateFii(t, n, s) /\ Alone
    \/ \E t \in TickerInputs, r \in RecordInputs : RegisterMonth(t, r) /\ Alone
    \/ \E t \in TickerInputs, m \in MonthInputs, r \in RecordInputs :
           UpdateMonthRecord(t, m, r) /\ Alone
    \/ \E t \in TickerInputs : ProjectIncome(t) /\ Alone

Spec == Init /\ [][Next]_vars

(***************************************************************************)
(* Vocabulary of the properties.                                           *)
(***************************************************************************)
\* The step is a call of the handler with some arguments.
RegisterMonthOf(t) == \E r \in RecordInputs : RegisterMonth(t, r)
UpdateMonthRecordOf(t) ==
    \E m \in MonthInputs, u \in RecordInputs : UpdateMonthRecord(t, m, u)

\* No lower-case letter in s.
IsUppercase(s) == \A i \in 1..Len(s) : ~(s[i] >= 97 /\ s[i] <= 122)

\* Positions of the funds of list whose ticker is the upper-cased t.
Holders(list, t) == {i \in 1..Len(list) : list[i].ticker = Upper(t)}
InRepo(list, t) == Holders(list, t) /= {}

\* Number of times x occurs in seq.
Count(seq, x) == Cardinality({i \in 1..Len(seq) : seq[i] = x})
\* a and b hold the same elements the same number of times.
SameBag(a, b) ==
    /\ Len(a) = Len(b)
    /\ \A i \in 1..Len(a) : Count(a, a[i]) = Count(b, a[i])

HasMonth(entries, month) == \E i \in 1..Len(entries) : entries[i].month = month
UniqueMonths(entries) ==
    \A i, j \in 1..Len(entries) : entries[i].month = entries[j].month => i = j
\* Ascending month order (equal months allowed next to each other).
Chronological(entries) ==
    \A i \in 1..Len(entries) - 1 : ~StrLess(entries[i + 1].month, entries[i].month)
UniqueTickers(list) ==
    \A i, j \in 1..Len(list) : list[i].ticker = list[j].ticker => i = j

\* Every fund but the one at position k is the same in both lists, and the
\* one at k keeps its ticker.
OnlyFundChanged(before, after, k) ==
    /\ Len(after) = Len(before)
    /\ \A i \in 1..Len(before) : i /= k => after[i] = before[i]
    /\ after[k].ticker = before[k].ticker

(***************************************************************************)
(* C1.  register_month on a fund that already has a record for             *)
(* record.month updates it in place: the fund's record count does not      *)
(* increase and the fund still holds one record per month.                 *)
(***************************************************************************)
C1_RegisterMonthUpdatesInPlace ==
    [][\A t \in TickerInputs, r \in RecordInputs :
          (last'.op = "mutate" /\ InRepo(fiis, t) /\ RegisterMonth(t, r)) =>
              LET k == FindFii(fiis, t)
              IN  /\ HasMonth(fiis[k].entries, r.month) =>
                         Len(fiis'[k].entries) = Len(fiis[k].entries)
                  /\ UniqueMonths(fiis[k].entries) =>
                         UniqueMonths(fiis'[k].entries)]_vars

(***************************************************************************)
(* C2.  update_month_record may move a record to another month key, and    *)
(* the fund still has at most one record per month afterwards, also when   *)
(* updated.month is the month of another record of the fund.               *)
(***************************************************************************)
C2_UpdateKeepsMonthsUnique ==
    [][\A t \in TickerInputs, m \in MonthInputs, u \in RecordInputs :
          (last'.op = "mutate" /\ InRepo(fiis, t)
               /\ UpdateMonthRecord(t, m, u)) =>
              LET k == FindFii(fiis, t)
              IN  UniqueMonths(fiis[k].entries) =>
                      UniqueMonths(fiis'[k].entries)]_vars

(***************************************************************************)
(* C3.  After every successful add_or_update_fii, register_month and       *)
(* update_month_record the store holds the full in-memory fund set:        *)
(* loading it yields exactly the funds and records in memory.              *)
(***************************************************************************)
C3_MutationsArePersisted ==
    (last.op = "mutate" /\ last.status = "ok") =>
        /\ store.kind = "portfolio"
        /\ LoadFiis(store).status = "ok"
        /\ LoadFiis(store).fiis = fiis

\* Two funds were added and two records registered, one of them with a
\* derived dividend_total.
C3_Witness ==
    /\ last.op = "mutate"
    /\ last.status = "ok"
    /\ Len(fiis) = 2
    /\ TotalEntries(fiis) = 2
    /\ \E k \in 1..Len(fiis) : \E i \in 1..Len(fiis[k].entries) :
           /\ fiis[k].entries[i].dividend_per_cota = 4
           /\ fiis[k].entries[i].dividend_total /= None

(***************************************************************************)
(* C4.  register_month, update_month_record and project_income with a      *)
(* ticker that is not in the repository end with FundNotFound, and leave   *)
(* the in-memory fund set and the store as they were.                      *)
(***************************************************************************)
C4_UnknownTickerRaises ==
    [][\A t \in TickerInputs :
          (/\ ~InRepo(fiis, t)
           /\ last'.op \in {"mutate", "query"}
           /\ RegisterMonthOf(t) \/ UpdateMonthRecordOf(t) \/ ProjectIncome(t)) =>
              /\ last'.status = "FundNotFound"
              /\ fiis' = fiis
              /\ store' = store]_vars

\* project_income raised on a tracker that holds XP and not HG.
C4_Witness ==
    /\ last.op = "query"
    /\ last.status = "FundNotFound"
    /\ InRepo(fiis, TXpLower)
    /\ ~InRepo(fiis, THgMixed)

(***************************************************************************)
(* C5.  update_month_record on an existing fund: when no record of the     *)
(* fund has month = original_month it ends with MonthNotFound and changes  *)
(* neither the funds nor the store; otherwise one record with that month   *)
(* is replaced by the updated one, and every other record of the fund and  *)
(* every other fund is as before.                                          *)
(***************************************************************************)
C5_UpdateReplacesOneRecord ==
    [][\A t \in TickerInputs, m \in MonthInputs, u \in RecordInputs :
          (last'.op = "mutate" /\ InRepo(fiis, t)
               /\ UpdateMonthRecord(t, m, u)) =>
              LET k   == FindFii(fiis, t)
                  old == fiis[k].entries
              IN  IF ~HasMonth(old, m)
                  THEN /\ last'.status = "MonthNotFound"
                       /\ fiis' = fiis
                       /\ store' = store
                  ELSE /\ last'.status = "ok"
                       /\ OnlyFundChanged(fiis, fiis', k)
                       /\ fiis'[k].name = fiis[k].name
                       /\ fiis'[k].sector = fiis[k].sector
                       /\ \E i \in 1..Len(old) :
                              /\ old[i].month = m
                              /\ SameBag(fiis'[k].entries,
                                         [old EXCEPT ![i] = u])]_vars

\* The fund loaded from the hand-written file, next to a second fund, after
\* its 2024-01 record was replaced by the "compra" record: its 2023-12 record
\* is the one the file held.
C5_Witness ==
    /\ last.op = "mutate"
    /\ last.status = "ok"
    /\ Len(fiis) = 2
    /\ \E k \in 1..Len(fiis) :
           /\ fiis[k].name = "Antigo"
           /\ Len(fiis[k].entries) = 2
           /\ fiis[k].entries[1] = RecordFromDict([month |-> M2312])
           /\ fiis[k].entries[2].notes = "compra"

(***************************************************************************)
(* C6.  register_month stores the record with dividend_total =             *)
(* round(dividend_per_cota x (total cotas before + cotas_added), 2) when   *)
(* the record comes without a total and with a dividend per cota, and      *)
(* with its own dividend_total when it carries one.                        *)
(***************************************************************************)
C6_DividendOnPostPurchaseCotas ==
    [][\A t \in TickerInputs, r \in RecordInputs :
          (last'.op = "mutate" /\ last'.status = "ok"
               /\ InRepo(fiis, t) /\ RegisterMonth(t, r)) =>
              LET k      == FindFii(fiis, t)
                  old    == fiis[k].entries
                  after  == SumCotas(old) + r.cotas_added
                  stored == [r EXCEPT !.dividend_total =
                                IF r.dividend_total /= None THEN r.dividend_total
                                ELSE IF r.dividend_per_cota /= 0
                                THEN Some(Round2(r.dividend_per_cota * after))
                                ELSE None]
              IN  SameBag(fiis'[k].entries, Append(old, stored))]_vars

\* A record of 2 cotas without a total was registered on a fund that already
\* held 3 cotas: its derived total is 0.004 x 5 cotas = 0.02 (2 cents).
C6_Witness ==
    /\ last.op = "mutate"
    /\ last.status = "ok"
    /\ \E k \in 1..Len(fiis) :
           /\ SumCotas(fiis[k].entries) = 5
           /\ \E i \in 1..Len(fiis[k].entries) :
                  /\ fiis[k].entries[i].dividend_per_cota = 4
                  /\ fiis[k].entries[i].dividend_total = Some(2)

(***************************************************************************)
(* C7.  Constructing or reloading the tracker never fails on bad storage:  *)
(* with the file missing or malformed the call ends without an error and   *)
(* the portfolio is empty.                                                 *)
(***************************************************************************)
C7_LoadNeverFails ==
    last.op = "load" =>
        /\ last.status = "ok"
        /\ alive
        /\ store.kind /= "portfolio" => fiis = <<>>

(***************************************************************************)
(* Save and load of any fund set.  The funds are built with their entries  *)
(* in any order, written with save_data as FIIsTracker._save does, and     *)
(* read back as FIIsTracker._load_fiis does.                               *)
(***************************************************************************)
\* Every list of at most n elements of S.
RECURSIVE SeqsUpTo(_, _)
SeqsUpTo(S, n) ==
    IF n = 0 THEN {<<>>}
    ELSE LET shorter == SeqsUpTo(S, n - 1)
         IN  shorter \cup {Append(q, x) : q \in shorter, x \in S}

BuiltFund(ticker, entries) ==
    [ticker |-> ticker, name |-> "Alfa", sector |-> "", entries |-> entries]

BuiltFundSets ==
    LET lists == SeqsUpTo(RecordInputs, MaxEntries)
    IN  {<<>>}
        \cup {<<BuiltFund(t, e)>> : t \in {TXpUpper, THgUpper}, e \in lists}
        \cup {<<BuiltFund(TXpUpper, e1), BuiltFund(THgUpper, e2)>> :
                  e1 \in lists, e2 \in lists}
        \cup {<<BuiltFund(THgUpper, e2), BuiltFund(TXpUpper, e1)>> :
                  e1 \in lists, e2 \in lists}

RoundTripInit ==
    /\ fiis \in BuiltFundSets
    /\ store \in FoundFiles
    /\ alive = TRUE
    /\ last = Call("build", "ok")
    /\ NoPeer /\ NoReference /\ NoProjection

\* save_data({"fiis": [fii.to_dict() ...]}, path)
SaveStep ==
    /\ last.op = "build"
    /\ LET saved == Save(fiis, store)
       IN  /\ store' = saved.store
           /\ last' = Call("save", saved.status)
    /\ UNCHANGED <<fiis, alive>>

\* [FII.from_dict(item) for item in load_data(path)["fiis"]], sorted
LoadStep ==
    /\ last.op = "save"
    /\ LET loaded == LoadFiis(store)
       IN  /\ store' = loaded.store
           /\ fiis' = loaded.fiis
           /\ last' = Call("load", loaded.status)
    /\ UNCHANGED alive

RoundTripNext ==
    \/ SaveStep /\ Alone
    \/ LoadStep /\ Alone

RoundTripSpec == RoundTripInit /\ [][RoundTripNext]_vars

(***************************************************************************)
(* C8.  Saving a fund set and loading the same location gives the same     *)
(* funds with the same records and field values (a dividend_total that is  *)
(* None stays None), each fund's entries in ascending month order whatever *)
(* order they were put in.                                                 *)
(***************************************************************************)
SameFunds(loaded, saved) ==
    /\ Len(loaded) = Len(saved)
    /\ \A i \in 1..Len(saved) :
           \E j \in 1..Len(loaded) :
               /\ loaded[j].ticker = saved[i].ticker
               /\ loaded[j].name = saved[i].name
               /\ loaded[j].sector = saved[i].sector
               /\ SameBag(loaded[j].entries, saved[i].entries)
               /\ Chronological(loaded[j].entries)

C8_SaveLoadRoundTrip ==
    (last.op = "save" /\ last.status = "ok") =>
        /\ LoadFiis(store).status = "ok"
        /\ SameFunds(LoadFiis(store).fiis, fiis)

\* Two funds were saved, one with its entries out of month order and one
\* holding a record without dividend_total.
C8_Witness ==
    /\ last.op = "save"
    /\ last.status = "ok"
    /\ Len(fiis) = 2
    /\ ~Chronological(fiis[1].entries)
    /\ \E i \in 1..Len(fiis[2].entries) : fiis[2].entries[i].dividend_total = None

(***************************************************************************)
(* C9.  add_or_update_fii creates the fund when no fund has the            *)
(* upper-cased ticker; otherwise it updates that fund and creates none:    *)
(* name and sector are each overwritten only by a non-empty value, the     *)
(* fund's records and the other funds are untouched.  No two funds ever    *)
(* share a ticker.                                                         *)
(***************************************************************************)
C9_AddOrUpdateStep ==
    \A t \in TickerInputs, n \in NameInputs, s \in SectorInputs :
        (last'.op = "mutate" /\ AddOrUpdateFii(t, n, s)) =>
            IF InRepo(fiis, t)
            THEN LET k == FindFii(fiis, t)
                 IN  /\ OnlyFundChanged(fiis, fiis', k)
                     /\ fiis'[k].name = (IF n /= "" THEN n ELSE fiis[k].name)
                     /\ fiis'[k].sector = (IF s /= "" THEN s ELSE fiis[k].sector)
                     /\ fiis'[k].entries = fiis[k].entries
            ELSE /\ Len(fiis') = Len(fiis) + 1
                 /\ \A i \in 1..Len(fiis) : Count(fiis', fiis[i]) = 1
                 /\ \E j \in 1..Len(fiis') :
                        fiis'[j] = [ticker |-> Upper(t), name |-> n,
                                    sector |-> s, entries |-> <<>>]

C9_AddOrUpdateFii ==
    /\ [][C9_AddOrUpdateStep]_vars
    /\ [](UniqueTickers(fiis))

\* The fund loaded as "Antigo" kept its name when the call passed "" for it
\* and got the sector the call passed, next to a second fund.
C9_Witness ==
    /\ last.op = "mutate"
    /\ last.status = "ok"
    /\ Len(fiis) = 2
    /\ \E k \in 1..Len(fiis) :
           /\ fiis[k].name = "Antigo"
           /\ fiis[k].sector = "Logistica"
           /\ fiis[k].entries /= <<>>

(***************************************************************************)
(* C10.  Tickers are upper case.                                           *)
(* As claimed: after any sequence of load, add_or_update_fii,              *)
(* register_month and update_month_record every ticker in memory and in    *)
(* the store is upper case, and find_fii(t) returns the fund whose ticker  *)
(* is uppercase(t), for any casing of t, and nothing when there is none.   *)
(***************************************************************************)
FindFiiIsCaseInsensitive ==
    \A t \in LookupInputs :
        IF InRepo(fiis, t)
        THEN FindFii(fiis, t) \in Holders(fiis, t)
        ELSE FindFii(fiis, t) = 0

TickersInMemoryUppercase == \A i \in 1..Len(fiis) : IsUppercase(fiis[i].ticker)

TickersInStoreUppercase ==
    \A i \in 1..Len(store.fiis) : IsUppercase(Get(store.fiis[i], "ticker", <<>>))

C10_TickersUppercaseEverywhere ==
    alive => /\ TickersInMemoryUppercase
             /\ TickersInStoreUppercase
             /\ FindFiiIsCaseInsensitive

\* As amended: every ticker in memory is upper case; every ticker in the store
\* is upper case once the tracker has written it (after a successful
\* add_or_update_fii, register_month or update_month_record), while a load
\* alone leaves the file as it found it; find_fii is as claimed.
C10_TickersUppercase ==
    alive => /\ TickersInMemoryUppercase
             /\ (last.op = "mutate" /\ last.status = "ok")
                    => TickersInStoreUppercase
             /\ FindFiiIsCaseInsensitive

\* After a successful mutating call the tracker holds XP and HG, the store is
\* the file it wrote, and XP is found under both spellings.
C10_Witness ==
    /\ last.op = "mutate"
    /\ last.status = "ok"
    /\ Len(fiis) = 2
    /\ store.kind = "portfolio"
    /\ Len(store.fiis) = 2
    /\ store /= ForeignFile
    /\ FindFii(fiis, TXpUpper) /= 0
    /\ FindFii(fiis, TXpUpper) = FindFii(fiis, TXpLower)
    /\ fiis[FindFii(fiis, THgUpper)].ticker = THgUpper

(***************************************************************************)
(* tracker.py: normalize_month, and the dialogs of gui_tk.py that call it  *)
(* before register_month and update_month_record.                          *)
(***************************************************************************)
IsDigit(c) == c >= 48 /\ c <= 57
IsSpace(c) == c \in {9, 10, 11, 12, 13, 32}

\* str.strip()
RECURSIVE StripLeft(_)
StripLeft(s) ==
    IF s /= <<>> /\ IsSpace(Head(s)) THEN StripLeft(Tail(s)) ELSE s

RECURSIVE StripRight(_)
StripRight(s) ==
    IF s /= <<>> /\ IsSpace(s[Len(s)])
    THEN StripRight(SubSeq(s, 1, Len(s) - 1))
    ELSE s

Strip(s) == StripRight(StripLeft(s))

\* value.strip().replace("/", "-"), then "YYYYMM" becomes "YYYY-MM".
Sanitized(value) ==
    LET stripped == Strip(value)
        dashed   == [i \in 1..Len(stripped) |->
                        IF stripped[i] = 47 THEN 45 ELSE stripped[i]]
    IN  IF Len(dashed) = 6 /\ \A i \in 1..6 : IsDigit(dashed[i])
        THEN SubSeq(dashed, 1, 4) \o <<45>> \o SubSeq(dashed, 5, 6)
        ELSE dashed

\* Whether strptime(sanitized + "-01", "%Y-%m-%d") parses: four digits of a
\* year that is not 0, "-", and a month written 1..9, 01..09 or 10..12.
Parses(sanitized) ==
    /\ Len(sanitized) \in {6, 7}
    /\ \A i \in 1..4 : IsDigit(sanitized[i])
    /\ \E i \in 1..4 : sanitized[i] /= 48
    /\ sanitized[5] = 45
    /\ IF Len(sanitized) = 6
       THEN sanitized[6] >= 49 /\ sanitized[6] <= 57
       ELSE \/ sanitized[6] = 48 /\ sanitized[7] >= 49 /\ sanitized[7] <= 57
            \/ sanitized[6] = 49 /\ sanitized[7] >= 48 /\ sanitized[7] <= 50

\* strftime("%Y"): the year without leading zeros.
RECURSIVE DropLeadingZeros(_)
DropLeadingZeros(digits) ==
    IF Len(digits) > 1 /\ Head(digits) = 48
    THEN DropLeadingZeros(Tail(digits))
    ELSE digits

\* normalize_month: [status, month]
NormalizeMonth(value) ==
    LET sanitized == Sanitized(value)
    IN  IF ~Parses(sanitized)
        THEN [status |-> "InvalidMonth", month |-> <<>>]
        ELSE [status |-> "ok",
              month  |-> DropLeadingZeros(SubSeq(sanitized, 1, 4))
                         \o <<45>>
                         \o (IF Len(sanitized) = 6
                             THEN <<48, sanitized[6]>>
                             ELSE SubSeq(sanitized, 6, 7))]

\* MonthModal.save (gui_tk.py): the typed month is normalised, the record is
\* registered, and the window's callback reloads the tracker.
MonthModalSave(ticker, typed) ==
    /\ alive
    /\ LET month == NormalizeMonth(typed.month)
           idx   == FindFii(fiis, ticker)
       IN  IF month.status /= "ok"
           THEN /\ last' = Call("mutate", "InvalidMonth")
                /\ UNCHANGED <<fiis, store>>
           ELSE IF idx = 0
           THEN /\ last' = Call("mutate", "FundNotFound")
                /\ UNCHANGED <<fiis, store>>
           ELSE /\ TotalEntries(fiis) < MaxEntries
                /\ LET record   == [typed EXCEPT !.month = month.month]
                       stored   == WithDividendTotal(fiis[idx], record)
                       mutated  == [fiis EXCEPT ![idx].entries =
                                        AppendEntry(fiis[idx].entries, stored)]
                       saved    == Save(mutated, store)
                       reloaded == LoadFiis(saved.store)
                   IN  IF saved.status /= "ok"
                       THEN /\ fiis' = mutated
                            /\ store' = saved.store
                            /\ last' = Call("mutate", saved.status)
                       ELSE /\ fiis' = IF reloaded.status = "ok"
                                       THEN reloaded.fiis ELSE mutated
                            /\ store' = reloaded.store
                            /\ last' = Call("mutate", reloaded.status)
    /\ UNCHANGED alive

\* EditHistoryModal.save (gui_tk.py): the typed month is normalised, the record
\* shown (current_month_key) is replaced, and the callback reloads the tracker.
EditHistorySave(ticker, current_month_key, typed) ==
    /\ alive
    /\ LET month == NormalizeMonth(typed.month)
           idx   == FindFii(fiis, ticker)
           at    == IF idx = 0 THEN 0
                    ELSE MatchIndex(fiis[idx].entries, current_month_key)
       IN  IF month.status /= "ok"
           THEN /\ last' = Call("mutate", "InvalidMonth")
                /\ UNCHANGED <<fiis, store>>
           ELSE IF idx = 0
           THEN /\ last' = Call("mutate", "FundNotFound")
                /\ UNCHANGED <<fiis, store>>
           ELSE IF at = 0
           THEN /\ last' = Call("mutate", "MonthNotFound")
                /\ UNCHANGED <<fiis, store>>
           ELSE LET record   == [typed EXCEPT !.month = month.month]
                    mutated  == [fiis EXCEPT ![idx].entries =
                                     ReplaceEntry(fiis[idx].entries, at, record)]
                    saved    == Save(mutated, store)
                    reloaded == LoadFiis(saved.store)
                IN  IF saved.status /= "ok"
                    THEN /\ fiis' = mutated
                         /\ store' = saved.store
                         /\ last' = Call("mutate", saved.status)
                    ELSE /\ fiis' = IF reloaded.status = "ok"
                                    THEN reloaded.fiis ELSE mutated
                         /\ store' = reloaded.store
                         /\ last' = Call("mutate", reloaded.status)
    /\ UNCHANGED alive

(***************************************************************************)
(* Month keys as they are typed or found in a file.                        *)
(***************************************************************************)
RawSlash   == <<50, 48, 50, 52, 47, 48, 51>>      \* "2024/03"
RawCompact == <<50, 48, 50, 51, 49, 50>>          \* "202312"
RawNoMonth == <<50, 48, 50, 52, 45, 49, 51>>      \* "2024-13"
RawShort   == <<50, 48, 50, 52, 47, 51>>          \* "2024/3"
RawMonths == {RawSlash, RawCompact, RawNoMonth}

\* What the month dialogs and the callers of register_month pass.
TypedRecords ==
    {MonthlyRecord(raw, 1, 1000, 0, None, "") : raw \in RawMonths}

\* A file holding fund XP without records, and one written by hand with the
\* month of its record as "2024/3".
TidyFile ==
    File("portfolio",
         <<[ticker |-> TXpUpper, name |-> "Alfa", sector |-> "", entries |-> <<>>]>>)
RawMonthFile ==
    File("portfolio",
         <<[ticker |-> TXpUpper, name |-> "Alfa", sector |-> "",
            entries |-> <<[month |-> RawShort, cotas_added |-> 1]>>]>>)

\* The month keys of every record the list holds.
MonthsHeld(list) ==
    UNION {{list[k].entries[i].month : i \in 1..Len(list[k].entries)} :
              k \in 1..Len(list)}

MonthKeyInit ==
    /\ \E file \in {TidyFile, ForeignFile, RawMonthFile} :
           LET loaded == LoadFiis(file)
           IN  /\ store = loaded.store
               /\ fiis = loaded.fiis
               /\ alive = (loaded.status = "ok")
               /\ last = Call("load", loaded.status)
    /\ NoPeer /\ NoReference /\ NoProjection

MonthKeyNext ==
    \/ \E r \in TypedRecords : MonthModalSave(TXpUpper, r) /\ Alone
    \/ \E m \in MonthsHeld(fiis), r \in TypedRecords :
           EditHistorySave(TXpUpper, m, r) /\ Alone
    \/ \E r \in TypedRecords : RegisterMonth(TXpLower, r) /\ Alone
    \/ \E m \in MonthsHeld(fiis), r \in TypedRecords :
           UpdateMonthRecord(TXpLower, m, r) /\ Alone
    \/ Refresh /\ Alone

MonthKeySpec == MonthKeyInit /\ [][MonthKeyNext]_vars

\* "YYYY-MM": four digits, "-", and a month 01..12.
IsCanonicalMonth(m) ==
    /\ Len(m) = 7
    /\ \A i \in 1..4 : IsDigit(m[i])
    /\ m[5] = 45
    /\ \/ m[6] = 48 /\ m[7] >= 49 /\ m[7] <= 57
       \/ m[6] = 49 /\ m[7] >= 48 /\ m[7] <= 50

(***************************************************************************)
(* C11.  After any sequence of register_month, update_month_record and     *)
(* load every month key held in the repository is in canonical YYYY-MM     *)
(* form: a key is normalised before it is stored, and a key that cannot    *)
(* be normalised is rejected, never stored.                                *)
(***************************************************************************)
C11_MonthKeysCanonical ==
    alive => \A m \in MonthsHeld(fiis) : IsCanonicalMonth(m)

(***************************************************************************)
(* Two trackers on the same data_path.  save_data is taken in the two      *)
(* steps another process can see between: path.open("w") empties the file, *)
(* and leaving the with block flushes the text json.dump produced and      *)
(* closes the handle.                                                      *)
(***************************************************************************)
Trackers == {"a", "b"}

\* self._fiis of tracker i.
Mem(i) == IF i = "a" THEN fiis ELSE peer

NoHandle == <<>>
Handle(data) == <<data>>

\* path.open("w"): the file is truncated; an empty file is not a JSON document.
OpenForWrite(st) == File("garbage", <<>>)

\* The buffered text is written from offset 0 over what the file holds now
\* and the handle is closed.  Text length is counted in fund objects: what
\* the file holds beyond the end of the written text stays, and the result is
\* not a JSON document.
FlushAndClose(data, st) ==
    IF Len(data.fiis) >= Len(st.fiis)
    THEN FileOf(data)
    ELSE File("garbage",
              data.fiis \o SubSeq(st.fiis, Len(data.fiis) + 1, Len(st.fiis)))

\* A call of tracker i and its outcome.
CallBy(op, status, i) == [op |-> op, status |-> status, by |-> i]

ConcurrentInit ==
    /\ store = TidyFile
    /\ fiis = LoadFiis(TidyFile).fiis
    /\ peer = LoadFiis(TidyFile).fiis
    /\ writing = [i \in Trackers |-> NoHandle]
    /\ alive = TRUE
    /\ last = CallBy("load", "ok", "b")
    /\ NoReference /\ NoProjection

\* add_or_update_fii of tracker i up to the open("w") of save_data.
BeginAddOrUpdate(i, ticker, name, sector) ==
    /\ writing[i] = NoHandle
    /\ LET list    == Mem(i)
           idx     == FindFii(list, ticker)
           mutated == IF idx /= 0
                      THEN [list EXCEPT ![idx] = UpdateExisting(list[idx], name, sector)]
                      ELSE SortByTicker(Append(list, NewFii(ticker, name, sector)))
           ensured == EnsureDataFile(store, 2)
       IN  /\ fiis' = IF i = "a" THEN mutated ELSE fiis
           /\ peer' = IF i = "b" THEN mutated ELSE peer
           /\ store' = OpenForWrite(ensured.store)
           /\ writing' = [writing EXCEPT ![i] = Handle(Payload(mutated))]
           /\ last' = CallBy("open", ensured.status, i)
    /\ UNCHANGED <<alive, ids, held, now, points, frame>>

\* The end of save_data's with block in tracker i; add_or_update_fii returns.
EndSave(i) ==
    /\ writing[i] /= NoHandle
    /\ store' = FlushAndClose(writing[i][1], store)
    /\ writing' = [writing EXCEPT ![i] = NoHandle]
    /\ last' = CallBy("save", "ok", i)
    /\ UNCHANGED <<fiis, peer, alive, ids, held, now, points, frame>>

\* refresh of tracker i.
Reload(i) ==
    /\ writing[i] = NoHandle
    /\ LET loaded == LoadFiis(store)
       IN  /\ fiis' = IF i = "a" /\ loaded.status = "ok" THEN loaded.fiis ELSE fiis
           /\ peer' = IF i = "b" /\ loaded.status = "ok" THEN loaded.fiis ELSE peer
           /\ store' = loaded.store
           /\ last' = CallBy("load", loaded.status, i)
    /\ UNCHANGED <<writing, alive, ids, held, now, points, frame>>

ConcurrentNext ==
    \/ \E i \in Trackers, t \in TickerInputs, n \in NameInputs :
           BeginAddOrUpdate(i, t, n, "")
    \/ \E i \in Trackers : EndSave(i)
    \/ \E i \in Trackers : Reload(i)

ConcurrentSpec == ConcurrentInit /\ [][ConcurrentNext]_vars

(***************************************************************************)
(* C12.  save is atomic for readers: a tracker that loads the path while   *)
(* the other one is saving finds a complete file, the previous content or  *)
(* the new one, and so never ends with an empty portfolio because of the   *)
(* save in progress (every content saved here holds at least one fund).    *)
(***************************************************************************)
C12_SaveIsAtomicForReaders ==
    [][\A j \in Trackers :
          Reload(j) => /\ store.kind = "portfolio"
                       /\ (IF j = "a" THEN fiis' ELSE peer') /= <<>>]_vars

(***************************************************************************)
(* C13.  Last write wins, without merge: once both trackers have returned  *)
(* from their saves, the stored portfolio is exactly the in-memory fund    *)
(* set of the tracker that saved last, so a fund only the earlier writer   *)
(* added is not in the store.                                              *)
(***************************************************************************)
C13_LastWriteWins ==
    (last.op = "save" /\ \A i \in Trackers : writing[i] = NoHandle) =>
        /\ store.kind = "portfolio"
        /\ LoadFiis(store).status = "ok"
        /\ LoadFiis(store).fiis = Mem(last.by)

(***************************************************************************)
(* Object identity.  ids[k] is the id() of the FII object fiis[k]; held is *)
(* None or Some([id, fund]): the object a caller got from find_fii and     *)
(* kept, with its value.  While that object is in the tracker's list (its *)
(* id is in ids) it is the list's element, and the two change together.    *)
(***************************************************************************)
Range(seq) == {seq[i] : i \in 1..Len(seq)}

\* Index of id in idseq, 0 when it is not there.
Position(idseq, id) ==
    LET hits == {i \in 1..Len(idseq) : idseq[i] = id}
    IN  IF hits = {} THEN 0 ELSE CHOOSE i \in hits : \A j \in hits : i <= j

HeldIds == IF held = None THEN {} ELSE {held[1].id}

\* The held object is not one of the tracker's objects.
Stale == held /= None /\ held[1].id \notin Range(ids)

\* Mutant of FreshIds: the objects of the list are reused, so every load
\* gives the ids 1..n again.
IdsReused(n, used) == [k \in 1..n |-> k]

\* ids of n objects built while the objects in used are alive: FII.from_dict
\* and FII(...) construct a new object each, whose id is none of theirs.
RECURSIVE FreshIds(_, _)
FreshIds(n, used) ==
    IF n = 0 THEN <<>>
    ELSE LET free == {x \in 1..Cardinality(used) + 1 : x \notin used}
             id   == CHOOSE x \in free : \A y \in free : x <= y
         IN  <<id>> \o FreshIds(n - 1, used \cup {id})

\* Names a caller writes through a reference it holds.
WrittenNames == {"Novo"}

\* What another process may leave at data_path between two calls.
ReplacedFiles == {ForeignFile, File("garbage", <<>>), File("array", <<>>)}

RefreshInit ==
    /\ \E file \in {TidyFile, ForeignFile} :
           /\ store = file
           /\ fiis = LoadFiis(file).fiis
           /\ ids = FreshIds(Len(LoadFiis(file).fiis), {})
    /\ held = None
    /\ alive = TRUE
    /\ last = Call("load", "ok")
    /\ NoPeer /\ NoProjection

\* refresh: self._fiis = self._load_fiis() binds a new list of new objects;
\* the old objects live on only where a caller holds them.
RefreshObjects ==
    /\ Refresh
    /\ ids' = IF last'.status = "ok"
              THEN FreshIds(Len(fiis'), Range(ids) \cup HeldIds)
              ELSE ids
    /\ UNCHANGED <<held, peer, writing, now, points, frame>>

\* add_or_update_fii: a fund that is created is a new object.
AddOrUpdateObjects(ticker, name, sector) ==
    /\ AddOrUpdateFii(ticker, name, sector)
    /\ ids' = IF FindFii(fiis, ticker) /= 0
              THEN ids
              ELSE LET pos == FindFii(fiis', ticker)
                   IN  SubSeq(ids, 1, pos - 1)
                       \o FreshIds(1, Range(ids) \cup HeldIds)
                       \o SubSeq(ids, pos, Len(ids))
    /\ held' = IF held = None \/ Stale
               THEN held
               ELSE Some([held[1] EXCEPT
                            !.fund = fiis'[Position(ids', held[1].id)]])
    /\ UNCHANGED <<peer, writing, now, points, frame>>

\* held = tracker.find_fii(ticker)
Hold(ticker) ==
    /\ alive
    /\ LET k == FindFii(fiis, ticker)
       IN  held' = IF k = 0 THEN None
                   ELSE Some([id |-> ids[k], fund |-> fiis[k]])
    /\ last' = Call("hold", "ok")
    /\ UNCHANGED <<fiis, store, alive, ids, peer, writing, now, points, frame>>

\* held.name = name
WriteThrough(name) ==
    /\ alive
    /\ held /= None
    /\ LET k == Position(ids, held[1].id)
       IN  IF k /= 0
           THEN /\ fiis' = [fiis EXCEPT ![k].name = name]
                /\ held' = Some([held[1] EXCEPT !.fund.name = name])
           ELSE /\ fiis' = fiis
                /\ held' = Some([held[1] EXCEPT !.fund.name = name])
    /\ last' = Call("write", "ok")
    /\ UNCHANGED <<store, alive, ids, peer, writing, now, points, frame>>

\* Another process replaces the file.
ExternalWrite(file) ==
    /\ store' = file
    /\ UNCHANGED <<fiis, alive, last, ids, held, peer, writing, now, points, frame>>

RefreshNext ==
    \/ RefreshObjects
    \/ \E t \in TickerInputs : AddOrUpdateObjects(t, "", "")
    \/ \E t \in TickerInputs : Hold(t)
    \/ \E n \in WrittenNames : WriteThrough(n)
    \/ \E file \in ReplacedFiles : ExternalWrite(file)

RefreshSpec == RefreshInit /\ [][RefreshNext]_vars

(***************************************************************************)
(* C14.  refresh replaces the whole in-memory fund set by what the store   *)
(* holds: after a refresh that returned, the in-memory set is the loaded   *)
(* store content, and a Fund reference obtained before it is stale: the    *)
(* held object is not the one find_fii returns for any ticker, it keeps    *)
(* the value it had, a change made through it changes neither the          *)
(* tracker's funds nor the store, and what a later save writes is the      *)
(* tracker's funds, without that change.                                   *)
(***************************************************************************)
C14_RefreshStep ==
    (RefreshObjects /\ last'.status = "ok") =>
        /\ fiis' = LoadFiis(store).fiis
        /\ held /= None =>
               /\ Stale'
               /\ held'[1].fund = held[1].fund
               /\ \A t \in LookupInputs :
                      FindFii(fiis', t) /= 0 =>
                          ids'[FindFii(fiis', t)] /= held'[1].id

C14_StaleWrite ==
    \A n \in WrittenNames :
        (Stale /\ WriteThrough(n)) =>
            /\ fiis' = fiis
            /\ store' = store
            /\ Stale'

C14_LaterSave ==
    \A t \in TickerInputs :
        (Stale /\ AddOrUpdateObjects(t, "", "") /\ last'.status = "ok") =>
            /\ Stale'
            /\ held' = held
            /\ LoadFiis(store').fiis = fiis'
            /\ \A k \in 1..Len(fiis) :
                   fiis'[FindFii(fiis', fiis[k].ticker)] = fiis[k]

C14_RefreshReplacesFundSet ==
    [][C14_RefreshStep /\ C14_StaleWrite /\ C14_LaterSave]_vars

\* Fund XP was held, the tracker was refreshed, the name "Novo" was written
\* through the held reference, and the tracker saved afterwards: the tracker
\* and the store hold XP under the name the file gave it.
C14_Witness ==
    /\ last = Call("mutate", "ok")
    /\ Stale
    /\ held[1].fund.ticker = TXpUpper
    /\ held[1].fund.name = "Novo"
    /\ FindFii(fiis, TXpUpper) /= 0
    /\ fiis[FindFii(fiis, TXpUpper)].name = "Antigo"
    /\ LoadFiis(store).fiis = fiis

(***************************************************************************)
(* Fund metrics (models.py) and month arithmetic (tracker.py).  A float    *)
(* that is a quotient is kept exact as [num, den]: an average dividend in  *)
(* mills, an average price in cents.                                       *)
(***************************************************************************)
Ratio(num, den) == [num |-> num, den |-> den]

\* round(num / den) to the nearest integer, ties to the even one
\* (num >= 0, den > 0).
RoundRatio(num, den) ==
    LET q == num \div den
        r == num % den
    IN  IF 2 * r > den \/ (2 * r = den /\ q % 2 = 1) THEN q + 1 ELSE q

\* int(text) of a string of digits.
RECURSIVE ToNat(_)
ToNat(digits) ==
    IF digits = <<>> THEN 0
    ELSE 10 * ToNat(SubSeq(digits, 1, Len(digits) - 1))
         + (digits[Len(digits)] - 48)

\* str(n)
RECURSIVE NatDigits(_)
NatDigits(n) ==
    IF n < 10 THEN <<48 + n>>
    ELSE NatDigits(n \div 10) \o <<48 + (n % 10)>>

\* f"{n:0{width}d}"
RECURSIVE ZeroPad(_, _)
ZeroPad(digits, width) ==
    IF Len(digits) >= width THEN digits ELSE ZeroPad(<<48>> \o digits, width)

\* Mutant of MonthAfter: the month wraps around without carrying into the
\* year.
MonthAfterNoCarry(reference, offset) ==
    LET month == ToNat(SubSeq(reference, 6, Len(reference)))
    IN  SubSeq(reference, 1, 4) \o <<45>>
        \o ZeroPad(NatDigits(((month - 1 + offset) % 12) + 1), 2)

\* month_after, for a reference that strptime parses.
MonthAfter(reference, offset) ==
    LET year         == ToNat(SubSeq(reference, 1, 4))
        month        == ToNat(SubSeq(reference, 6, Len(reference)))
        total_months == year * 12 + month - 1 + offset
        new_year     == total_months \div 12
        new_month    == (total_months % 12) + 1
    IN  ZeroPad(NatDigits(new_year), 4) \o <<45>> \o ZeroPad(NatDigits(new_month), 2)

\* FII.total_invested, in cents.
RECURSIVE TotalInvested(_)
TotalInvested(entries) ==
    IF entries = <<>> THEN 0
    ELSE Head(entries).cotas_added * Head(entries).price_per_cota
         + TotalInvested(Tail(entries))

\* Mutant of AveragePrice: a fund without cotas is priced 1.00.
AveragePriceFloored(fii) ==
    IF TotalCotas(fii) /= 0
    THEN Ratio(TotalInvested(fii.entries), TotalCotas(fii))
    ELSE Ratio(100, 1)

\* FII.average_price, in cents.
AveragePrice(fii) ==
    LET cotas == TotalCotas(fii)
    IN  IF cotas /= 0 THEN Ratio(TotalInvested(fii.entries), cotas) ELSE Ratio(0, 1)

\* [entry.dividend_per_cota for entry in self.entries if entry.dividend_per_cota > 0]
RECURSIVE PositiveDividends(_)
PositiveDividends(entries) ==
    IF entries = <<>> THEN <<>>
    ELSE (IF Head(entries).dividend_per_cota > 0
          THEN <<Head(entries).dividend_per_cota>> ELSE <<>>)
         \o PositiveDividends(Tail(entries))

RECURSIVE SumOf(_)
SumOf(numbers) ==
    IF numbers = <<>> THEN 0 ELSE Head(numbers) + SumOf(Tail(numbers))

\* dividends[-window:] for window > 0.
LastOf(list, window) ==
    IF window >= Len(list) THEN list
    ELSE SubSeq(list, Len(list) - window + 1, Len(list))

\* Mutant of AverageDividendPerCota: the window is cut from all the records
\* before the months without a positive dividend are left out.
AverageDividendWindowFirst(fii, window) ==
    LET recent    == IF window /= None /\ window[1] /= 0
                     THEN LastOf(fii.entries, window[1])
                     ELSE fii.entries
        dividends == PositiveDividends(recent)
    IN  IF dividends = <<>> THEN Ratio(0, 1)
        ELSE Ratio(SumOf(dividends), Len(dividends))

\* FII.average_dividend_per_cota, in mills; window is None or Some(n), n >= 0.
AverageDividendPerCota(fii, window) ==
    LET dividends == PositiveDividends(fii.entries)
        windowed  == IF window /= None /\ window[1] /= 0
                     THEN LastOf(dividends, window[1])
                     ELSE dividends
    IN  IF dividends = <<>> THEN Ratio(0, 1)
        ELSE Ratio(SumOf(windowed), Len(windowed))

\* FII.last_record: None or Some(record)
LastRecord(fii) ==
    IF fii.entries = <<>> THEN None
    ELSE LET sorted == SortByMonth(fii.entries)
         IN  Some(sorted[Len(sorted)])

\* Mutant of LastMonth: the labels always start from the calendar month.
LastMonthFromClock(fii, clock) == clock

\* fii.last_record().month if fii.last_record() else
\* datetime.now().strftime("%Y-%m")
LastMonth(fii, clock) ==
    IF LastRecord(fii) /= None THEN LastRecord(fii)[1].month ELSE clock

(***************************************************************************)
(* tracker.py: the projections.  Cotas are whole numbers, incomes and cash *)
(* are cents.                                                              *)
(***************************************************************************)
ProjectionPoint(month, projected_cotas, projected_income, cumulative_income, reinvested_cotas, combined_cotas, combined_income) ==
    [month             |-> month,
     projected_cotas   |-> projected_cotas,
     projected_income  |-> projected_income,
     cumulative_income |-> cumulative_income,
     reinvested_cotas  |-> reinvested_cotas,
     combined_cotas    |-> combined_cotas,
     combined_income   |-> combined_income]

\* Mutant of IncomeOf: the income is cut to whole cents, not rounded.
IncomeCut(cotas, avg_dividend) ==
    (cotas * avg_dividend.num) \div (avg_dividend.den * 10)

\* round(cotas * avg_dividend, 2): avg_dividend in mills, the result in cents.
IncomeOf(cotas, avg_dividend) ==
    RoundRatio(cotas * avg_dividend.num, avg_dividend.den * 10)

\* avg_price = fii.average_price(); if avg_price <= 0: avg_price = 1.0
PriceUsed(fii) ==
    IF AveragePrice(fii).num <= 0 THEN Ratio(100, 1) ELSE AveragePrice(fii)

\* Mutant of Purchasable: dividend cash buys nothing.
PurchasableNothing(cash_remainder, avg_price) == 0

\* int(cash_remainder // avg_price)
Purchasable(cash_remainder, avg_price) ==
    (cash_remainder * avg_price.den) \div avg_price.num

\* One pass of the loop of project_income (lines 141-166); run holds what is
\* fixed before the loop, locals what the pass before left: [locals, point].
LoopBody(run, locals) ==
    LET offset           == locals.offset + 1
        cotas_before_reinvest == locals.current_cotas + run.monthly_cotas
        projected_income == IncomeOf(cotas_before_reinvest, run.avg_dividend)
        cumulative_now   == locals.cumulative + projected_income
        cash             == locals.cash_remainder + projected_income
        extra_cotas      == Purchasable(cash, run.avg_price)
        cash_left        == IF extra_cotas /= 0
                            THEN RoundRatio(cash * run.avg_price.den
                                              - extra_cotas * run.avg_price.num,
                                            run.avg_price.den)
                            ELSE cash
        combined_cotas   == cotas_before_reinvest + extra_cotas
    IN  [locals |-> [offset           |-> offset,
                     current_cotas    |-> combined_cotas,
                     cumulative       |-> cumulative_now,
                     cash_remainder   |-> cash_left,
                     reinvested_total |-> locals.reinvested_total + extra_cotas,
                     extra_cotas      |-> extra_cotas],
         point  |-> ProjectionPoint(MonthAfter(run.last_month, offset),
                                    cotas_before_reinvest,
                                    projected_income,
                                    cumulative_now,
                                    locals.reinvested_total + extra_cotas,
                                    combined_cotas,
                                    IncomeOf(combined_cotas, run.avg_dividend))]

\* The loop of project_income from step offset on.
RECURSIVE IncomeSteps(_, _, _, _, _, _)
IncomeSteps(run, offset, current_cotas, cumulative, cash_remainder, reinvested_total) ==
    IF offset > run.months THEN <<>>
    ELSE LET body == LoopBody(run, [offset           |-> offset - 1,
                                    current_cotas    |-> current_cotas,
                                    cumulative       |-> cumulative,
                                    cash_remainder   |-> cash_remainder,
                                    reinvested_total |-> reinvested_total,
                                    extra_cotas      |-> 0])
         IN  <<body.point>>
             \o IncomeSteps(run, offset + 1, body.locals.current_cotas,
                            body.locals.cumulative, body.locals.cash_remainder,
                            body.locals.reinvested_total)

\* project_income after the lookup: [status, points].
ProjectIncomePoints(fii, months, monthly_cotas, window, clock) ==
    LET run == [months        |-> months,
                monthly_cotas |-> monthly_cotas,
                avg_dividend  |-> AverageDividendPerCota(fii, window),
                avg_price     |-> PriceUsed(fii),
                last_month    |-> LastMonth(fii, clock)]
    IN  IF months >= 1 /\ ~Parses(run.last_month)
        THEN [status |-> "ValueError", points |-> <<>>]
        ELSE [status |-> "ok",
              points |-> IncomeSteps(run, 1, TotalCotas(fii), 0, 0, 0)]

\* monthly_plan is a list of <<ticker, value>>, the items of the dict in
\* order.  {ticker.upper(): value ...}.get(ticker, 0.0)
RECURSIVE PlanGet(_, _)
PlanGet(monthly_plan, ticker) ==
    IF monthly_plan = <<>> THEN 0
    ELSE LET item == monthly_plan[Len(monthly_plan)]
         IN  IF Upper(item[1]) = ticker THEN item[2]
             ELSE PlanGet(SubSeq(monthly_plan, 1, Len(monthly_plan) - 1), ticker)

\* max((fii.last_record().month for fii in fiis if fii.last_record()),
\*     default=now)
RECURSIVE ReferenceMonth(_, _)
ReferenceMonth(list, clock) ==
    IF list = <<>> THEN clock
    ELSE IF LastRecord(Head(list)) = None THEN ReferenceMonth(Tail(list), clock)
    ELSE LET own  == LastRecord(Head(list))[1].month
             rest == Tail(list)
         IN  IF \A i \in 1..Len(rest) : LastRecord(rest[i]) = None
             THEN own
             ELSE LET other == ReferenceMonth(rest, clock)
                  IN  IF StrLess(own, other) THEN other ELSE own

\* Mutant of PortfolioState: the average dividend is taken over the whole
\* history, whatever the window.
PortfolioStateAllHistory(list, monthly_plan, window) ==
    [i \in 1..Len(list) |->
        [cotas        |-> TotalCotas(list[i]),
         monthly_add  |-> PlanGet(monthly_plan, list[i].ticker),
         avg_dividend |-> AverageDividendPerCota(list[i], None)]]

\* The state project_portfolio keeps per fund.
PortfolioState(list, monthly_plan, window) ==
    [i \in 1..Len(list) |->
        [cotas        |-> TotalCotas(list[i]),
         monthly_add  |-> PlanGet(monthly_plan, list[i].ticker),
         avg_dividend |-> AverageDividendPerCota(list[i], window)]]

\* Mutant of Advance: the fund's income buys cotas at 1.00 each.
AdvanceReinvesting(data) ==
    [data EXCEPT !.cotas = @ + data.monthly_add
                             + (@ * data.avg_dividend.num)
                                   \div (data.avg_dividend.den * 1000)]

\* data["cotas"] += data["monthly_add"]
Advance(data) == [data EXCEPT !.cotas = @ + data.monthly_add]

\* Sum over the funds of cotas * avg_dividend, in mills, as a quotient.
RECURSIVE IncomeSum(_)
IncomeSum(state) ==
    IF state = <<>> THEN Ratio(0, 1)
    ELSE LET rest == IncomeSum(Tail(state))
             own  == Head(state)
         IN  Ratio(own.cotas * own.avg_dividend.num * rest.den
                     + rest.num * own.avg_dividend.den,
                   own.avg_dividend.den * rest.den)

RECURSIVE CotasSum(_)
CotasSum(state) ==
    IF state = <<>> THEN 0 ELSE Head(state).cotas + CotasSum(Tail(state))

\* The loop of project_portfolio from step offset on.
RECURSIVE PortfolioSteps(_, _, _, _, _)
PortfolioSteps(months, reference_month, offset, state, cumulative) ==
    IF offset > months THEN <<>>
    ELSE LET advanced     == [i \in 1..Len(state) |-> Advance(state[i])]
             month_income == RoundRatio(IncomeSum(advanced).num,
                                        IncomeSum(advanced).den * 10)
             total_cotas  == CotasSum(advanced)
         IN  <<ProjectionPoint(MonthAfter(reference_month, offset),
                               total_cotas,
                               month_income,
                               cumulative + month_income,
                               0,
                               total_cotas,
                               month_income)>>
             \o PortfolioSteps(months, reference_month, offset + 1, advanced,
                               cumulative + month_income)

\* Mutant of ProjectPortfolioPoints: no early return for an empty list.
ProjectPortfolioUnguarded(list, months, monthly_plan, window, clock) ==
    [status |-> "ok",
     points |-> PortfolioSteps(months, ReferenceMonth(list, clock), 1,
                               PortfolioState(list, monthly_plan, window), 0)]

\* project_portfolio: [status, points].
ProjectPortfolioPoints(list, months, monthly_plan, window, clock) ==
    IF list = <<>> THEN [status |-> "ok", points |-> <<>>]
    ELSE IF months >= 1 /\ ~Parses(ReferenceMonth(list, clock))
    THEN [status |-> "ValueError", points |-> <<>>]
    ELSE [status |-> "ok",
          points |-> PortfolioSteps(months, ReferenceMonth(list, clock), 1,
                                    PortfolioState(list, monthly_plan, window), 0)]

(***************************************************************************)
(* The projections called on a tracker whose funds get their records from  *)
(* register_month, while the calendar month advances.                      *)
(***************************************************************************)
TAbcd == <<65, 66, 67, 68, 49, 49>>       \* "ABCD11"
M2402 == <<50, 48, 50, 52, 45, 48, 50>>   \* "2024-02"

\* 100 cotas at 10.00 paying 0.50 each; a dividend of 0.60 per cota recorded
\* without any purchase; 2 cotas at 12.50 paying 0.004 each.
ProjectionRecords ==
    {MonthlyRecord(M2401, 100, 1000, 500, None, ""),
     MonthlyRecord(M2312, 0, 0, 600, None, ""),
     MonthlyRecord(M2402, 2, 1250, 4, None, "")}

ProjectionTickers == {TAbcd, TXpLower}
MonthsInputs == {0, 1, 2}
MonthlyCotasInputs == {0, 1}
WindowInputs == {None, Some(1)}
PlanInputs == {<<>>, <<<<TXpLower, 1>>>>}

\* A file without funds, and one with the funds ABCD11 and XP and no record.
ProjectionFiles ==
    {File("portfolio", <<>>),
     File("portfolio",
          <<[ticker |-> TAbcd, name |-> "Alfa", sector |-> "", entries |-> <<>>],
            [ticker |-> TXpUpper, name |-> "Beta", sector |-> "", entries |-> <<>>]>>)}

\* A projection call, its arguments and its outcome.
Query(op, status, args) == [op |-> op, status |-> status, args |-> args]

ProjectionInit ==
    /\ \E file \in ProjectionFiles :
           /\ store = file
           /\ fiis = LoadFiis(file).fiis
    /\ alive = TRUE
    /\ last = Call("load", "ok")
    /\ NoPeer /\ NoReference /\ NoProjection

\* FIIsTracker.project_income, with the points it returns.
ProjectIncomeCall(ticker, months, monthly_cotas, window) ==
    /\ alive
    /\ LET idx    == FindFii(fiis, ticker)
           args   == <<ticker, months, monthly_cotas, window>>
           result == ProjectIncomePoints(fiis[idx], months, monthly_cotas,
                                         window, now)
       IN  IF idx = 0
           THEN /\ last' = Query("project_income", "FundNotFound", args)
                /\ points' = <<>>
           ELSE /\ last' = Query("project_income", result.status, args)
                /\ points' = result.points
    /\ UNCHANGED <<fiis, store, alive, peer, writing, ids, held, now, frame>>

\* FIIsTracker.project_portfolio, with the points it returns.
ProjectPortfolioCall(months, monthly_plan, window) ==
    /\ alive
    /\ LET result == ProjectPortfolioPoints(fiis, months, monthly_plan, window, now)
       IN  /\ last' = Query("project_portfolio", result.status,
                            <<months, monthly_plan, window>>)
           /\ points' = result.points
    /\ UNCHANGED <<fiis, store, alive, peer, writing, ids, held, now, frame>>

\* The calendar month ends.
Tick ==
    /\ now = M2401
    /\ now' = M2402
    /\ UNCHANGED <<fiis, store, alive, last, peer, writing, ids, held, points, frame>>

ProjectionNext ==
    \/ \E t \in ProjectionTickers, r \in ProjectionRecords :
           RegisterMonth(t, r) /\ Alone
    \/ \E t \in ProjectionTickers, m \in MonthsInputs,
          c \in MonthlyCotasInputs, w \in WindowInputs :
           ProjectIncomeCall(t, m, c, w)
    \/ \E m \in MonthsInputs, p \in PlanInputs, w \in WindowInputs :
           ProjectPortfolioCall(m, p, w)
    \/ Tick

ProjectionSpec == ProjectionInit /\ [][ProjectionNext]_vars

(***************************************************************************)
(* Vocabulary of the projection properties.                                *)
(***************************************************************************)
\* The last call was project_income / project_portfolio and it returned.
IncomeReturned == last.op = "project_income" /\ last.status = "ok"
PortfolioReturned == last.op = "project_portfolio" /\ last.status = "ok"

\* The fund the last project_income call named.
Projected == fiis[FindFii(fiis, last.args[1])]

(***************************************************************************)
(* C15.  Fund ABCD11 with the single record {2024-01, 100 cotas at 10.00,  *)
(* 0.50 per cota, no dividend_total}: register_month stores dividend_total *)
(* 50.00, and project_income(ABCD11, months=1, monthly_cotas=0,            *)
(* window=None) returns one point: 100 cotas before reinvestment, income   *)
(* 50.00, cumulative income 50.00, 5 cotas reinvested, 105 combined cotas, *)
(* combined income 52.50.                                                  *)
(***************************************************************************)
C15_Scenario ==
    /\ last = Query("project_income", "ok", <<TAbcd, 1, 0, None>>)
    /\ Len(Projected.entries) = 1
    /\ Projected.entries[1].month = M2401
    /\ Projected.entries[1].cotas_added = 100

C15_EndToEnd ==
    C15_Scenario =>
        /\ Projected.entries[1].dividend_total = Some(5000)
        /\ points = <<ProjectionPoint(M2402, 100, 5000, 5000, 5, 105, 5250)>>

\* The scenario happened with the other fund holding a record too.
C15_Witness ==
    /\ C15_Scenario
    /\ TotalEntries(fiis) = 2

(***************************************************************************)
(* C16.  Funds without cotas.                                              *)
(* As claimed: for every fund whose total cotas is zero, average_price()   *)
(* is 0, project_income raises no division error and the fund's income     *)
(* and reinvestment project as 0.                                          *)
(***************************************************************************)
\* project_income was called on a fund of the repository holding no cotas.
ZeroCotasProjected ==
    /\ last.op = "project_income"
    /\ FindFii(fiis, last.args[1]) /= 0
    /\ TotalCotas(Projected) = 0

C16_ZeroCotasProjectZero ==
    ZeroCotasProjected =>
        /\ AveragePrice(Projected) = Ratio(0, 1)
        /\ last.status = "ok"
        /\ \A k \in 1..Len(points) :
               /\ points[k].projected_income = 0
               /\ points[k].reinvested_cotas = 0
               /\ points[k].combined_income = 0

\* As amended: average_price() is 0 and no division error is raised; with
\* monthly_cotas = 0 every point has 0 cotas, 0 income and 0 reinvested
\* cotas; with monthly_cotas > 0 the added cotas earn income, and every whole
\* 1.00 of the income accumulated so far has bought one cota (floor price 1.0).
C16_ZeroCotas ==
    ZeroCotasProjected =>
        /\ AveragePrice(Projected) = Ratio(0, 1)
        /\ PriceUsed(Projected) = Ratio(100, 1)
        /\ last.status = "ok"
        /\ Len(points) = last.args[2]
        /\ \A k \in 1..Len(points) :
               /\ points[k].projected_cotas >= k * last.args[3]
               /\ points[k].reinvested_cotas = points[k].cumulative_income \div 100
               /\ last.args[3] = 0 =>
                      points[k] = ProjectionPoint(points[k].month, 0, 0, 0, 0, 0, 0)

\* A fund whose only record is the dividend of 0.60 without purchase,
\* projected over 2 months with 1 cota added per month: 0.60 + 1.20 of
\* income bought one cota.
C16_Witness ==
    /\ ZeroCotasProjected
    /\ Projected.entries /= <<>>
    /\ last.args[3] = 1
    /\ Len(points) = 2
    /\ points[2].cumulative_income = 180
    /\ points[2].reinvested_cotas = 1
    /\ points[2].combined_income > points[2].projected_income

(***************************************************************************)
(* C17.  project_income is deterministic.                                  *)
(* As claimed: two calls of project_income with the same ticker, months,   *)
(* monthly_cotas and window on the same repository state return identical  *)
(* sequences of points, month labels included, whether or not the fund has *)
(* any record.                                                             *)
(***************************************************************************)
\* A step from the result of one project_income call to the result of a
\* call with the same arguments, the funds being the same.
SameIncomeCall ==
    /\ last.op = "project_income"
    /\ last'.op = "project_income"
    /\ last'.args = last.args
    /\ fiis' = fiis

C17_SameInputsSamePoints ==
    [][SameIncomeCall => points' = points]_vars

\* As amended: the two results are identical when the fund has a record;
\* for a fund without records they agree in every field but the month
\* label, and the labels of the later call count from the calendar month
\* current at that call.
C17_SameInputsSameUpToClock ==
    [][(SameIncomeCall /\ now' = now) =>
          /\ last'.status = last.status
          /\ Len(points') = Len(points)
          /\ \A k \in 1..Len(points) :
                 [points'[k] EXCEPT !.month = points[k].month] = points[k]
          /\ FindFii(fiis, last.args[1]) /= 0 =>
                 IF Projected.entries /= <<>>
                 THEN points' = points
                 ELSE \A k \in 1..Len(points) :
                          points'[k].month = MonthAfter(now, k)]_vars

\* A fund without records projected after the calendar month changed: its
\* points are labelled from the new month.
C17_Witness ==
    /\ IncomeReturned
    /\ Projected.entries = <<>>
    /\ now = M2402
    /\ Len(points) = 2
    /\ points[1].month = MonthAfter(M2402, 1)
    /\ points[1].month /= MonthAfter(M2401, 1)

(***************************************************************************)
(* C18.  project_portfolio does not reinvest.                              *)
(* In every point project_portfolio returns, reinvested cotas is 0,        *)
(* combined cotas equals projected cotas and combined income equals        *)
(* projected income; the cotas of step k are, summed over the funds, the   *)
(* fund's total cotas plus k times its planned monthly addition, never     *)
(* increased by dividend cash, although project_income for the same fund   *)
(* does reinvest.                                                          *)
(***************************************************************************)
\* Sum over the funds of total cotas + k * planned monthly addition.
RECURSIVE PlannedCotas(_, _, _)
PlannedCotas(list, monthly_plan, k) ==
    IF list = <<>> THEN 0
    ELSE TotalCotas(Head(list)) + k * PlanGet(monthly_plan, Head(list).ticker)
         + PlannedCotas(Tail(list), monthly_plan, k)

C18_PortfolioNeverReinvests ==
    PortfolioReturned =>
        \A k \in 1..Len(points) :
            /\ points[k].reinvested_cotas = 0
            /\ points[k].combined_cotas = points[k].projected_cotas
            /\ points[k].combined_income = points[k].projected_income
            /\ points[k].projected_cotas = PlannedCotas(fiis, last.args[2], k)

\* project_portfolio returned points for funds of which one, projected alone
\* by project_income over the same months with the same addition, reinvests.
C18_Witness ==
    /\ PortfolioReturned
    /\ Len(points) = 2
    /\ last.args[2] /= <<>>
    /\ \E i \in 1..Len(fiis) :
           LET alone == ProjectIncomePoints(fiis[i], 2,
                                            PlanGet(last.args[2], fiis[i].ticker),
                                            last.args[3], now)
           IN  /\ alone.status = "ok"
               /\ alone.points[2].reinvested_cotas > 0
               /\ alone.points[2].combined_cotas > alone.points[2].projected_cotas

(***************************************************************************)
(* C19.  project_portfolio aggregates per step.                            *)
(* As claimed: a fund the plan does not name adds 0 cotas per month; at    *)
(* step k the point's income is the sum over the funds of (cotas after the *)
(* step's addition * the fund's windowed average dividend), its cotas are  *)
(* the sum of the funds' cotas, cumulative income is the running sum of    *)
(* the step incomes, and the month label is k months after the greatest    *)
(* last-record month of the funds.                                         *)
(***************************************************************************)
\* Sum over the funds of (total cotas + k * planned addition) * windowed
\* average dividend, in mills, as a quotient.
RECURSIVE StepIncome(_, _, _, _)
StepIncome(list, monthly_plan, window, k) ==
    IF list = <<>> THEN Ratio(0, 1)
    ELSE LET rest  == StepIncome(Tail(list), monthly_plan, window, k)
             cotas == TotalCotas(Head(list))
                        + k * PlanGet(monthly_plan, Head(list).ticker)
             avg   == AverageDividendPerCota(Head(list), window)
         IN  Ratio(cotas * avg.num * rest.den + rest.num * avg.den,
                   avg.den * rest.den)

\* The incomes of the first k points added up.
RECURSIVE RunningIncome(_, _)
RunningIncome(pts, k) ==
    IF k = 0 THEN 0 ELSE pts[k].projected_income + RunningIncome(pts, k - 1)

\* The funds holding a record.
WithRecords == {i \in 1..Len(fiis) : fiis[i].entries /= <<>>}

\* The month the labels count from when a fund has a record: the greatest
\* last-record month.
C19_Start ==
    CHOOSE m \in {LastRecord(fiis[i])[1].month : i \in WithRecords} :
        \A i \in WithRecords : ~StrLess(m, LastRecord(fiis[i])[1].month)

\* Everything the claim says but the income.
C19_Shape(k) ==
    /\ points[k].projected_cotas = PlannedCotas(fiis, last.args[2], k)
    /\ points[k].cumulative_income = RunningIncome(points, k)
    /\ WithRecords /= {} => points[k].month = MonthAfter(C19_Start, k)
    /\ \A i \in 1..Len(fiis) :
           (\A j \in 1..Len(last.args[2]) :
                Upper(last.args[2][j][1]) /= fiis[i].ticker)
               => PlanGet(last.args[2], fiis[i].ticker) = 0

C19_IncomeIsExactSum ==
    PortfolioReturned =>
        \A k \in 1..Len(points) :
            LET exact == StepIncome(fiis, last.args[2], last.args[3], k)
            IN  /\ points[k].projected_income * 10 * exact.den = exact.num
                /\ C19_Shape(k)

\* As amended: the point's income is that sum rounded to 2 decimals.
C19_IncomeIsRoundedSum ==
    PortfolioReturned =>
        /\ fiis /= <<>> => Len(points) = last.args[1]
        /\ \A k \in 1..Len(points) :
               LET exact == StepIncome(fiis, last.args[2], last.args[3], k)
               IN  /\ points[k].projected_income
                          = RoundRatio(exact.num, exact.den * 10)
                   /\ C19_Shape(k)

\* Two funds with records of different months, one of them not named in the
\* plan, projected over 2 months, the sum of a step not being whole cents.
C19_Witness ==
    /\ PortfolioReturned
    /\ Len(points) = 2
    /\ Len(fiis) = 2
    /\ WithRecords = {1, 2}
    /\ LastRecord(fiis[1])[1].month /= LastRecord(fiis[2])[1].month
    /\ \E i \in 1..2 : PlanGet(last.args[2], fiis[i].ticker) = 1
    /\ \E i \in 1..2 : /\ PlanGet(last.args[2], fiis[i].ticker) = 0
                       /\ TotalCotas(fiis[i]) > 0
    /\ \E k \in 1..2 :
           LET exact == StepIncome(fiis, last.args[2], last.args[3], k)
           IN  exact.num % (10 * exact.den) /= 0

(***************************************************************************)
(* C20.  project_portfolio on a repository without funds returns an empty  *)
(* sequence, whatever months, plan and window are.                         *)
(***************************************************************************)
C20_EmptyPortfolioProjectsNothing ==
    (last.op = "project_portfolio" /\ fiis = <<>>) =>
        last.status = "ok" /\ points = <<>>

\* project_portfolio was called on the empty repository for 2 months with a
\* plan naming a fund and a window.
C20_Witness ==
    /\ last.op = "project_portfolio"
    /\ fiis = <<>>
    /\ last.args[1] = 2
    /\ last.args[2] /= <<>>
    /\ last.args[3] /= None
    /\ points = <<>>

(***************************************************************************)
(* normalize_month and month_after called on their own.  last holds the    *)
(* call, its arguments and what it returned.                               *)
(***************************************************************************)
Answer(op, status, args, value) ==
    [op |-> op, status |-> status, args |-> args, value |-> value]

\* Spellings of a month: spaces, a year, a separator or none, a month part.
YearParts == {<<50, 48, 50, 52>>,        \* "2024"
              <<48, 57, 57, 57>>,        \* "0999"
              <<48, 48, 48, 48>>,        \* "0000"
              <<57, 57, 57, 57>>}        \* "9999"
SeparatorParts == {<<45>>, <<47>>, <<>>} \* "-", "/", ""
MonthParts == {<<49>>, <<48, 49>>,       \* "1", "01"
               <<51>>, <<48, 51>>,       \* "3", "03"
               <<49, 48>>, <<49, 50>>,   \* "10", "12"
               <<49, 51>>, <<48, 48>>}   \* "13", "00"
SpaceParts == {<<>>, <<32>>}

Spelling(lead, year, sep, month, trail) ==
    lead \o year \o sep \o month \o trail

SpellingInputs ==
    {Spelling(lead, y, s, m, trail) :
        lead \in SpaceParts, y \in YearParts, s \in SeparatorParts,
        m \in MonthParts, trail \in SpaceParts}

\* References of month_after, and its offsets.
M2411 == <<50, 48, 50, 52, 45, 49, 49>>   \* "2024-11"
M099912 == <<48, 57, 57, 57, 45, 49, 50>> \* "0999-12"
M999912 == <<57, 57, 57, 57, 45, 49, 50>> \* "9999-12"
ReferenceInputs == {M2411, M2312, M2401, M099912, M999912}
MaxOffset == 14
OffsetInputs == 0..MaxOffset

CalendarInit ==
    /\ fiis = <<>>
    /\ store = File("portfolio", <<>>)
    /\ alive = TRUE
    /\ last = Call("load", "ok")
    /\ NoPeer /\ NoReference /\ NoProjection

\* normalize_month(value)
NormalizeCall(value) ==
    /\ LET result == NormalizeMonth(value)
       IN  last' = Answer("normalize_month", result.status, <<value>>, result.month)
    /\ UNCHANGED <<fiis, store, alive>>

\* month_after(reference, offset): strptime raises ValueError on a reference
\* it does not parse.
MonthAfterResult(reference, offset) ==
    IF Parses(reference)
    THEN Answer("month_after", "ok", <<reference, offset>>,
                MonthAfter(reference, offset))
    ELSE Answer("month_after", "ValueError", <<reference, offset>>, <<>>)

MonthAfterCall(reference, offset) ==
    /\ last' = MonthAfterResult(reference, offset)
    /\ UNCHANGED <<fiis, store, alive>>

\* month_after applied to what month_after returned for a reference month.
MonthAfterAgain(offset) ==
    /\ last.op = "month_after"
    /\ last.status = "ok"
    /\ last.args[1] \in ReferenceInputs
    /\ last' = MonthAfterResult(last.value, offset)
    /\ UNCHANGED <<fiis, store, alive>>

CalendarNext ==
    \/ \E value \in SpellingInputs : NormalizeCall(value) /\ Alone
    \/ \E reference \in ReferenceInputs, offset \in OffsetInputs :
           MonthAfterCall(reference, offset) /\ Alone
    \/ \E offset \in OffsetInputs : MonthAfterAgain(offset) /\ Alone

CalendarSpec == CalendarInit /\ [][CalendarNext]_vars

\* The key "YYYY-MM" of a year and a month number.
KeyOf(year, month) ==
    ZeroPad(NatDigits(year), 4) \o <<45>> \o ZeroPad(NatDigits(month), 2)

(***************************************************************************)
(* C21.  normalize_month maps every accepted spelling of a calendar month  *)
(* to the same canonical key: with "-", with "/" or as six digits the      *)
(* result is the four-digit year, "-", and the month 01..12; a canonical   *)
(* key is returned unchanged; a spelling that is no calendar month (month  *)
(* 13 or 00, year 0000) fails with InvalidMonth.                           *)
(***************************************************************************)
\* What the claim expects of the spelling made of these parts.
C21_Expected(year, sep, month) ==
    IF /\ ToNat(year) >= 1
       /\ ToNat(month) \in 1..12
       /\ sep /= <<>> \/ Len(month) = 2
    THEN [status |-> "ok", month |-> KeyOf(ToNat(year), ToNat(month))]
    ELSE [status |-> "InvalidMonth", month |-> <<>>]

C21_NormalizeMonthCanonical ==
    last.op = "normalize_month" =>
        /\ last.status = "ok" => IsCanonicalMonth(last.value)
        /\ (IsCanonicalMonth(last.args[1]) /\ ToNat(SubSeq(last.args[1], 1, 4)) >= 1)
               => last.status = "ok" /\ last.value = last.args[1]
        /\ \A lead \in SpaceParts, y \in YearParts, s \in SeparatorParts,
              m \in MonthParts, trail \in SpaceParts :
               last.args[1] = Spelling(lead, y, s, m, trail) =>
                   /\ last.status = C21_Expected(y, s, m).status
                   /\ last.value = C21_Expected(y, s, m).month

(***************************************************************************)
(* C22.  month_after.                                                      *)
(* As claimed: for every offset >= 0, month_after(reference, offset) is    *)
(* the canonical key of the month exactly offset calendar months after     *)
(* reference, year carries and offsets >= 12 included; its month part is   *)
(* in 01..12; and month_after(month_after(m, a), b) = month_after(m, a+b). *)
(***************************************************************************)
\* The number of the month a key names, counted from year 0.
MonthsOf(key) ==
    ToNat(SubSeq(key, 1, Len(key) - 3)) * 12
        + ToNat(SubSeq(key, Len(key) - 1, Len(key))) - 1

\* What the claim says of the call a step makes.
C22_Returned ==
    /\ last'.status = "ok"
    /\ IsCanonicalMonth(last'.value)
    /\ MonthsOf(last'.value) = MonthsOf(last'.args[1]) + last'.args[2]
    /\ (last.op = "month_after" /\ last.status = "ok"
            /\ last'.args[1] = last.value)
           => last'.value = MonthAfter(last.args[1], last.args[2] + last'.args[2])

C22_MonthAfterEveryOffset ==
    [][last'.op = "month_after" => C22_Returned]_vars

\* As amended: the same for every offset that leaves the year at or below
\* 9999.
C22_MonthAfter ==
    [][(/\ last'.op = "month_after"
        /\ MonthsOf(last'.args[1]) + last'.args[2] < 10000 * 12)
           => C22_Returned]_vars

\* month_after("2024-11", 13) = "2025-12" was passed on with offset 14 and gave
\* "2027-02", which is month_after("2024-11", 27).
C22_Witness ==
    /\ last.op = "month_after"
    /\ last.status = "ok"
    /\ last.args = <<KeyOf(2025, 12), 14>>
    /\ last.value = KeyOf(2027, 2)
    /\ last.value = MonthAfter(M2411, 27)

(***************************************************************************)
(* The fund metrics called on the funds of a loaded tracker.  last holds   *)
(* the call, its arguments (the position of the fund in the list, then the *)
(* method's own) and what it returned.                                     *)
(***************************************************************************)
\* Mutant of TotalDividendsReceived: a total of 0 counts as absent.
TotalDividendsZeroAsAbsent(fii) ==
    SumOf([k \in 1..Len(fii.entries) |->
              LET entry == fii.entries[k]
              IN  IF entry.dividend_total /= None /\ entry.dividend_total /= Some(0)
                  THEN entry.dividend_total[1] * 10
                  ELSE entry.dividend_per_cota * entry.cotas_added])

\* FII.total_dividends_received, in mills (a total is held in cents).
TotalDividendsReceived(fii) ==
    SumOf([k \in 1..Len(fii.entries) |->
              LET entry == fii.entries[k]
              IN  IF entry.dividend_total /= None
                  THEN entry.dividend_total[1] * 10
                  ELSE IF entry.dividend_per_cota /= 0 /\ entry.cotas_added /= 0
                  THEN entry.dividend_per_cota * entry.cotas_added
                  ELSE 0])

\* FIIsTracker.total_portfolio_dividends, in mills.
TotalPortfolioDividends(list) ==
    SumOf([i \in 1..Len(list) |-> TotalDividendsReceived(list[i])])

\* Dividend histories: up to MaxHistory consecutive months from 2023-09 on,
\* each paying nothing, a negative correction, or 0.300, 0.400 or 0.500 per
\* cota, on one cota bought at 10.00.
MaxHistory == 4
DividendInputs == {0 - 100, 0, 300, 400, 500}

HistoryEntries(dividends) ==
    [k \in 1..Len(dividends) |->
        MonthlyRecord(MonthAfter(KeyOf(2023, 8), k), 1, 1000, dividends[k],
                      None, "")]

\* Records with and without a dividend total: 0 or 2 cotas, paying nothing
\* or 0.500 per cota, the total absent, 0 or 7.00.
PaidRecords(month) ==
    {MonthlyRecord(month, cotas, 1000, dividend, total, "") :
        cotas \in {0, 2}, dividend \in {0, 500},
        total \in {None, Some(0), Some(700)}}

PaidEntries ==
    {<<>>} \cup {<<r>> : r \in PaidRecords(M2312)}
           \cup {<<r1, r2>> : r1 \in PaidRecords(M2312), r2 \in PaidRecords(M2401)}

MetricsPortfolios ==
    {<<BuiltFund(TXpUpper, HistoryEntries(d))>> :
        d \in SeqsUpTo(DividendInputs, MaxHistory)}
    \cup {<<BuiltFund(TXpUpper, e)>> : e \in PaidEntries}
    \cup {<<BuiltFund(THgUpper, <<r>>), BuiltFund(TXpUpper, e)>> :
             r \in PaidRecords(M2401),
             e \in {<<>>} \cup {<<r2>> : r2 \in PaidRecords(M2312)}}

MetricWindows == {None, Some(0), Some(1), Some(2), Some(3)}

MetricsInit ==
    /\ \E list \in MetricsPortfolios :
           /\ store = FileOf(Payload(list))
           /\ fiis = LoadFiis(store).fiis
    /\ alive = TRUE
    /\ last = Call("load", "ok")
    /\ NoPeer /\ NoReference /\ NoProjection

\* Mutant of Returns: the method saves the portfolio before it returns.
ReturnsSaving(op, args, value) ==
    /\ last' = Answer(op, "ok", args, value)
    /\ store' = Save(fiis, store).store
    /\ UNCHANGED <<fiis, alive>>

\* A method of the fund object fiis[i], or of the tracker, returns value.
Returns(op, args, value) ==
    /\ last' = Answer(op, "ok", args, value)
    /\ UNCHANGED <<fiis, store, alive>>

TotalCotasCall(i) == Returns("total_cotas", <<i>>, TotalCotas(fiis[i]))

TotalInvestedCall(i) ==
    Returns("total_invested", <<i>>, TotalInvested(fiis[i].entries))

AveragePriceCall(i) == Returns("average_price", <<i>>, AveragePrice(fiis[i]))

AverageDividendCall(i, window) ==
    Returns("average_dividend_per_cota", <<i, window>>,
            AverageDividendPerCota(fiis[i], window))

LastRecordCall(i) == Returns("last_record", <<i>>, LastRecord(fiis[i]))

TotalDividendsCall(i) ==
    Returns("total_dividends_received", <<i>>, TotalDividendsReceived(fiis[i]))

TotalPortfolioDividendsCall ==
    Returns("total_portfolio_dividends", <<>>, TotalPortfolioDividends(fiis))

MetricsNext ==
    \/ \E i \in 1..Len(fiis) : TotalCotasCall(i) /\ Alone
    \/ \E i \in 1..Len(fiis) : TotalInvestedCall(i) /\ Alone
    \/ \E i \in 1..Len(fiis) : AveragePriceCall(i) /\ Alone
    \/ \E i \in 1..Len(fiis), w \in MetricWindows : AverageDividendCall(i, w) /\ Alone
    \/ \E i \in 1..Len(fiis) : LastRecordCall(i) /\ Alone
    \/ \E i \in 1..Len(fiis) : TotalDividendsCall(i) /\ Alone
    \/ TotalPortfolioDividendsCall /\ Alone

MetricsSpec == MetricsInit /\ [][MetricsNext]_vars

(***************************************************************************)
(* C23.  average_dividend_per_cota(window) takes the records with a        *)
(* strictly positive dividend per cota, in chronological order, and        *)
(* returns the mean of the last window of them when a window is given, of  *)
(* all of them otherwise, and 0 when there is none.  With window 2 the     *)
(* history 0.3, 0, 0.5, 0.4 gives 0.45: the month paying 0 neither counts  *)
(* nor uses up a place in the window.                                      *)
(***************************************************************************)
\* The fund a metric was called on.
Measured == fiis[last.args[1]]

PaysDividend(entry) == entry.dividend_per_cota > 0

\* The sum of the dividends per cota of the last n records of a list.
RECURSIVE RecentDividends(_, _)
RecentDividends(entries, n) ==
    IF n = 0 THEN 0
    ELSE entries[Len(entries)].dividend_per_cota
         + RecentDividends(SubSeq(entries, 1, Len(entries) - 1), n - 1)

Contribution(entry) ==
    IF entry.dividend_total = None
    THEN entry.dividend_per_cota * entry.cotas_added
    ELSE 10 * entry.dividend_total[1]

RECURSIVE Contributions(_)
Contributions(entries) ==
    IF entries = <<>> THEN 0
    ELSE Contribution(Head(entries)) + Contributions(Tail(entries))

RECURSIVE PortfolioContributions(_)
PortfolioContributions(list) ==
    IF list = <<>> THEN 0
    ELSE Contributions(Head(list).entries) + PortfolioContributions(Tail(list))

C24_DividendsReceived ==
    /\ last.op = "total_dividends_received" =>
           last.value = Contributions(Measured.entries)
    /\ last.op = "total_portfolio_dividends" =>
           last.value = PortfolioContributions(fiis)

\* The portfolio total of two funds, one holding a record with the explicit
\* total 0 that would derive 1.00, the other a record without total that
\* derives 1.00.
C24_Witness ==
    /\ last.op = "total_portfolio_dividends"
    /\ Len(fiis) = 2
    /\ \E i, j \in 1..2 :
           /\ i /= j
           /\ fiis[i].entries = <<MonthlyRecord(M2401, 2, 1000, 500, Some(0), "")>>
           /\ fiis[j].entries = <<MonthlyRecord(M2312, 2, 1000, 500, None, "")>>
    /\ last.value = 1000

(***************************************************************************)
(* project_income taken pass by pass.  frame is None, or Some of the       *)
(* locals of the call inside its loop: run (what lines 130-135 fixed) and  *)
(* locals (what the last pass left); points is the list built so far.      *)
(***************************************************************************)
MaxMonths == 3
LoopMonths == (0 - 1)..MaxMonths

\* Funds: 4 cotas at 2.00 and 3 at 10.00 paying 2.00 each (average price
\* 38/7); 100 cotas at 10.00 paying 0.50; a dividend of 0.60 without any
\* purchase; no record at all; a record whose month was stored as it was
\* passed to register_month, "2024/03".
LoopEntries ==
    {<<MonthlyRecord(M2312, 4, 200, 2000, None, ""),
       MonthlyRecord(M2401, 3, 1000, 2000, None, "")>>,
     <<MonthlyRecord(M2401, 100, 1000, 500, None, "")>>,
     <<MonthlyRecord(M2312, 0, 0, 600, None, "")>>,
     <<>>,
     <<MonthlyRecord(RawSlash, 1, 1000, 500, None, "")>>}

LoopInit ==
    /\ \E entries \in LoopEntries :
           /\ store = FileOf(Payload(<<BuiltFund(TXpUpper, entries)>>))
           /\ fiis = LoadFiis(store).fiis
    /\ alive = TRUE
    /\ last = Call("load", "ok")
    /\ NoPeer /\ NoReference /\ NoProjection

\* project_income up to its loop (lines 127-139).
BeginProjectIncome(ticker, months, monthly_cotas, window) ==
    /\ frame = None
    /\ LET idx  == FindFii(fiis, ticker)
           args == <<ticker, months, monthly_cotas, window>>
           fii  == fiis[idx]
       IN  IF idx = 0
           THEN /\ last' = Query("project_income", "FundNotFound", args)
                /\ frame' = None
           ELSE /\ last' = Query("project_income", "running", args)
                /\ frame' = Some([run    |-> [months        |-> months,
                                              monthly_cotas |-> monthly_cotas,
                                              avg_dividend  |-> AverageDividendPerCota(fii, window),
                                              avg_price     |-> PriceUsed(fii),
                                              last_month    |-> LastMonth(fii, now)],
                                  locals |-> [offset           |-> 0,
                                              current_cotas    |-> TotalCotas(fii),
                                              cumulative       |-> 0,
                                              cash_remainder   |-> 0,
                                              reinvested_total |-> 0,
                                              extra_cotas      |-> 0]])
    /\ points' = <<>>
    /\ UNCHANGED <<fiis, store, alive, peer, writing, ids, held, now>>

\* One pass of the loop (lines 140-166); month_after raises ValueError on a
\* last month it cannot parse.
LoopPass ==
    /\ frame /= None
    /\ frame[1].locals.offset < frame[1].run.months
    /\ IF ~Parses(frame[1].run.last_month)
       THEN /\ last' = [last EXCEPT !.status = "ValueError"]
            /\ frame' = None
            /\ points' = <<>>
       ELSE LET body == LoopBody(frame[1].run, frame[1].locals)
            IN  /\ frame' = Some([frame[1] EXCEPT !.locals = body.locals])
                /\ points' = Append(points, body.point)
                /\ UNCHANGED last
    /\ UNCHANGED <<fiis, store, alive, peer, writing, ids, held, now>>

\* range(1, months + 1) is exhausted: return points (line 167).
ReturnPoints ==
    /\ frame /= None
    /\ frame[1].locals.offset >= frame[1].run.months
    /\ last' = [last EXCEPT !.status = "ok"]
    /\ frame' = None
    /\ UNCHANGED <<fiis, store, alive, peer, writing, ids, held, now, points>>

LoopNext ==
    \/ \E t \in {TXpLower, THgMixed}, m \in LoopMonths,
          c \in MonthlyCotasInputs, w \in WindowInputs :
           BeginProjectIncome(t, m, c, w)
    \/ LoopPass
    \/ ReturnPoints

IncomeLoopSpec == LoopInit /\ [][LoopNext]_vars

\* The loop runs to its end: a pass or the return that can be taken is taken.
IncomeLoopFairSpec ==
    IncomeLoopSpec /\ WF_vars(LoopPass) /\ WF_vars(ReturnPoints)

\* Taken pass by pass, project_income returns what ProjectIncomePoints gives.
LoopAgreesWithCall ==
    (last.op = "project_income" /\ last.status = "ok") =>
        points = ProjectIncomePoints(Projected, last.args[2], last.args[3],
                                     last.args[4], now).points

(***************************************************************************)
(* Vocabulary of the properties of the loop.                               *)
(***************************************************************************)
\* The step is a pass of the loop that appended a point.
Passed ==
    /\ frame /= None
    /\ frame' /= None
    /\ frame'[1].locals.offset = frame[1].locals.offset + 1

\* The price the call buys at, the point the pass appended, and the cash at
\* hand in the pass before buying, in cents.
PassPrice == frame[1].run.avg_price
PassPoint == points'[Len(points')]
PassCash == frame[1].locals.cash_remainder + PassPoint.projected_income

(***************************************************************************)
(* C25.  Reinvestment in project_income buys whole cotas only and carries  *)
(* the rest: in every pass the cotas bought are floor(cash_remainder /     *)
(* avg_price) of the cash accumulated so far, their cost is taken from     *)
(* cash_remainder (to the cent), and after the pass                        *)
(* 0 <= cash_remainder < avg_price: nothing is bought fractionally and no  *)
(* cash that could buy a whole cota stays uninvested.                      *)
(***************************************************************************)
C25_WholeCotasAndCarry ==
    [][Passed =>
          LET bought == frame'[1].locals.extra_cotas
              left   == frame'[1].locals.cash_remainder
              exact  == PassCash * PassPrice.den - bought * PassPrice.num
          IN  /\ bought \in Nat
              /\ bought * PassPrice.num <= PassCash * PassPrice.den
              /\ PassCash * PassPrice.den < (bought + 1) * PassPrice.num
              /\ 2 * (left * PassPrice.den - exact) <= PassPrice.den
              /\ 2 * (exact - left * PassPrice.den) <= PassPrice.den
              /\ 0 <= left
              /\ left * PassPrice.den < PassPrice.num]_vars

(***************************************************************************)
(* C26.  Every point project_income emits carries the cumulative number of *)
(* reinvested cotas, which never decreases; at step k the combined cotas   *)
(* are the cotas before reinvestment plus the cotas bought at step k, and  *)
(* are the fund's total cotas + k * monthly_cotas + the cumulative         *)
(* reinvested cotas; the cotas before reinvestment of step k + 1 are the   *)
(* combined cotas of step k plus monthly_cotas; the step's income is       *)
(* round(cotas before reinvestment * avg_dividend, 2) and the combined     *)
(* income round(combined cotas * avg_dividend, 2), avg_dividend being      *)
(* evaluated once, before the loop.                                        *)
(***************************************************************************)
\* The cumulative reinvested cotas after step k (none before step 1).
ReinvestedBy(k) == IF k = 0 THEN 0 ELSE points[k].reinvested_cotas

\* cents is round(cotas * avg, 2): the nearest whole number of cents, avg
\* being a quotient of mills.
IsRounded(cents, cotas, avg) ==
    /\ 2 * (cents * 10 * avg.den - cotas * avg.num) <= 10 * avg.den
    /\ 2 * (cotas * avg.num - cents * 10 * avg.den) <= 10 * avg.den

C26_PointsOfProjectIncome ==
    IncomeReturned =>
        LET monthly == last.args[3]
            avg     == AverageDividendPerCota(Projected, last.args[4])
        IN  \A k \in 1..Len(points) :
                /\ ReinvestedBy(k) >= ReinvestedBy(k - 1)
                /\ points[k].combined_cotas
                       = points[k].projected_cotas
                         + (ReinvestedBy(k) - ReinvestedBy(k - 1))
                /\ points[k].combined_cotas
                       = TotalCotas(Projected) + k * monthly + ReinvestedBy(k)
                /\ k < Len(points) =>
                       points[k + 1].projected_cotas
                           = points[k].combined_cotas + monthly
                /\ IsRounded(points[k].projected_income,
                             points[k].projected_cotas, avg)
                /\ IsRounded(points[k].combined_income,
                             points[k].combined_cotas, avg)

\* Two steps with a cota added each month, both of which reinvested.
C26_Witness ==
    /\ IncomeReturned
    /\ last.args[3] = 1
    /\ Len(points) = 2
    /\ points[1].reinvested_cotas > 0
    /\ points[2].reinvested_cotas > points[1].reinvested_cotas
    /\ points[2].combined_income > points[2].projected_income

(***************************************************************************)
(* C27.  project_income always terminates and returns exactly months       *)
(* points, none when months <= 0; the point of step offset is labelled     *)
(* month_after(m0, offset), m0 being the month of the fund's most recent   *)
(* record (the greatest month key), so the labels are the consecutive      *)
(* calendar months that follow the last recorded one.                      *)
(***************************************************************************)
\* The greatest month key of the projected fund's records.
C27_LastRecorded ==
    CHOOSE m \in {Projected.entries[i].month : i \in 1..Len(Projected.entries)} :
        \A i \in 1..Len(Projected.entries) : ~StrLess(m, Projected.entries[i].month)

C27_Returned ==
    (last.op = "project_income" /\ last.status /= "FundNotFound" /\ frame = None) =>
        /\ last.status = "ok"
        /\ Len(points) = IF last.args[2] <= 0 THEN 0 ELSE last.args[2]
        /\ Projected.entries /= <<>> =>
               \A k \in 1..Len(points) :
                   /\ points[k].month = MonthAfter(C27_LastRecorded, k)
                   /\ IsCanonicalMonth(points[k].month)
                   /\ MonthsOf(points[k].month) = MonthsOf(C27_LastRecorded) + k

C27_ProjectIncomeTerminates ==
    /\ []C27_Returned
    /\ (frame /= None) ~> (frame = None)

(***************************************************************************)
(* C28.  After any sequence of loads, register_month and                   *)
(* update_month_record calls, whatever the order the months were inserted  *)
(* in or edited to, every fund's records are held in memory in ascending   *)
(* order of their month key, and a save writes every fund's entries in     *)
(* ascending order of their month key.                                     *)
(***************************************************************************)
\* The entries of every fund object of a written file are in month order.
WrittenSorted(file) ==
    /\ file.kind = "portfolio"
    /\ \A i \in 1..Len(file.fiis) : Chronological(file.fiis[i].entries)

C28_RecordsSortedByMonth ==
    /\ \A i \in 1..Len(fiis) : Chronological(fiis[i].entries)
    /\ (last.op = "mutate" /\ last.status = "ok") => WrittenSorted(store)

\* A mutating call has saved a fund that holds the later purchase and the
\* earlier dividend-only record, the earlier one first in memory and in the
\* file.
C28_Witness ==
    /\ last.op = "mutate"
    /\ last.status = "ok"
    /\ \E i \in 1..Len(fiis) :
           /\ Len(fiis[i].entries) = 2
           /\ fiis[i].entries[1] = MonthlyRecord(M2312, 0, 0, 6, Some(7), "")
           /\ fiis[i].entries[2].month = M2401
           /\ fiis[i].entries[2].cotas_added = 3
           /\ store.fiis[i].entries[1].month = M2312
           /\ store.fiis[i].entries[2].month = M2401

(***************************************************************************)
(* The projections and the metrics called on a tracker in use: constructed *)
(* on a file it wrote or on one written by hand, its funds getting records *)
(* from register_month while the calendar month advances.                  *)
(***************************************************************************)
QueryFiles ==
    {ForeignFile, File("portfolio", <<>>)}
    \cup {FileOf(Payload(<<BuiltFund(TXpUpper, e)>>)) : e \in LoopEntries}
    \cup {FileOf(Payload(<<BuiltFund(THgUpper, <<>>), BuiltFund(TXpUpper, <<r>>)>>)) :
             r \in {MonthlyRecord(M2312, 2, 1000, 500, None, "")}}

QueryInit ==
    /\ \E file \in QueryFiles :
           /\ store = file
           /\ fiis = LoadFiis(file).fiis
    /\ alive = TRUE
    /\ last = Call("load", "ok")
    /\ NoPeer /\ NoReference /\ NoProjection

QueryNext ==
    \/ \E t \in TickerInputs, r \in RecordInputs : RegisterMonth(t, r) /\ Alone
    \/ \E t \in ProjectionTickers, m \in MonthsInputs,
          c \in MonthlyCotasInputs, w \in WindowInputs :
           ProjectIncomeCall(t, m, c, w)
    \/ \E m \in MonthsInputs, p \in PlanInputs, w \in WindowInputs :
           ProjectPortfolioCall(m, p, w)
    \/ Tick
    \/ MetricsNext

QuerySpec == QueryInit /\ [][QueryNext]_vars

(***************************************************************************)
(* C29.  project_income, project_portfolio, total_cotas, total_invested,   *)
(* average_price, average_dividend_per_cota, last_record,                  *)
(* total_dividends_received and total_portfolio_dividends are read-only:   *)
(* whatever the arguments, and whether the call returns or raises, the     *)
(* funds, their records and the records' order are the same after the call *)
(* as before it, and the stored portfolio is not written.                  *)
(***************************************************************************)
ReadOnlyOps ==
    {"project_income", "project_portfolio", "total_cotas", "total_invested",
     "average_price", "average_dividend_per_cota", "last_record",
     "total_dividends_received", "total_portfolio_dividends"}

C29_QueriesAreReadOnly ==
    [][(last' /= last /\ last'.op \in ReadOnlyOps) =>
           /\ fiis' = fiis
           /\ store' = store
           /\ alive' = alive]_vars

\* project_income returned points for a fund of a tracker whose file is still
\* the hand-written one, entries out of order: nothing was saved.
C29_Witness ==
    /\ last.op = "project_income"
    /\ last.status = "ok"
    /\ points /= <<>>
    /\ store = ForeignFile
    /\ store /= FileOf(Payload(fiis))

(***************************************************************************)
(* C30.  Cash conservation in project_income: after every pass k the       *)
(* cumulative income reported for step k is the sum of the step incomes of *)
(* steps 1..k, and it equals the cotas reinvested so far times the price   *)
(* they were bought at (avg_price, or 1.0 when avg_price <= 0) plus the    *)
(* cash_remainder carried on, so no dividend cash is created or lost by    *)
(* reinvesting; the cumulative income never decreases from one step to     *)
(* the next.                                                               *)
(***************************************************************************)
\* Sum of the step incomes of the points, in cents.
RECURSIVE SumOfIncomes(_)
SumOfIncomes(pts) ==
    IF pts = <<>> THEN 0 ELSE Head(pts).projected_income + SumOfIncomes(Tail(pts))

C30_CashConservation ==
    [][Passed =>
          LET after == frame'[1].locals
          IN  /\ PassPoint.cumulative_income = SumOfIncomes(points')
              /\ PassPoint.cumulative_income * PassPrice.den
                     = PassPoint.reinvested_cotas * PassPrice.num
                           + after.cash_remainder * PassPrice.den
              /\ PassPoint.cumulative_income >= frame[1].locals.cumulative]_vars

====
